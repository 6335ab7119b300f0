------------------------------- MODULE MCSeeding -------------------------------
(* A small set of seeds: one or two rows in a table, two seeded records, one    *)
(* that users deposit.                                                          *)
EXTENDS Seeding

SluggedDef ==
    [t \in {"users", "institutions", "members", "newsCategories", "news", "categories",
            "tags", "courses"} |->
        IF t = "institutions" THEN <<"collective", "university">> ELSE <<t>>]
NamedByDef == [r \in {"arc1", "arc21"} |-> IF r = "arc1" THEN "university" ELSE "collective"]
CourseDef == <<"planning", "video", "metadata">>
BadgesDef == <<"firstStep", "learner">>
RolesDef == <<"system_admin">>

=============================================================================
