----------------------------- MODULE Transitions -----------------------------
(***************************************************************************)
(* WORKFLOW_TRANSITIONS: the status an action leads to, per current status *)
(***************************************************************************)

Statuses == {"draft", "processing", "cataloging", "in_review", "approved", "published"}

WorkflowActions == {"submit", "start_cataloging", "request_review", "approve",
                    "publish", "unpublish", "return_changes"}

Transitions == {
    <<"draft",      "submit",           "processing">>,
    <<"processing", "start_cataloging", "cataloging">>,
    <<"processing", "return_changes",   "draft">>,
    <<"cataloging", "request_review",   "in_review">>,
    <<"cataloging", "return_changes",   "draft">>,
    <<"in_review",  "approve",          "approved">>,
    <<"in_review",  "return_changes",   "draft">>,
    <<"approved",   "publish",          "published">>,
    <<"approved",   "return_changes",   "draft">>,
    <<"published",  "unpublish",        "draft">> }

\* An entry of the ArchiveWorkflowEvent table, or of the audit log.
Events == [from: Statuses \cup {"none"}, to: Statuses]

Event(from, to) == [from |-> from, to |-> to]

=============================================================================
