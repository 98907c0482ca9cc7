------------------------------ MODULE MCDeployment ------------------------------
(***************************************************************************)
(* Instances of Deployment for TLC: a schema of a lookup table and a table *)
(* that references it, whose second version takes the table's UPDATE right *)
(* away, has a column more, and two relations.                             *)
(***************************************************************************)
EXTENDS Deployment

CONSTANTS d1, d2

Grades == LookupTable("lutGrades", <<>>)

Person(more) ==
    Table("tblPerson",
          <<Column("id", PrimaryKey),
            ForeignKey("grade", ReferenceTo("lutGrades", "id"), {"NotNull", "OnDeleteRestrict"}),
            Column("salary", {"OnUserUpdateRestrict", "Notify"})>> \o more)

Boss ==
    OnlyUserSelect(Unique(RecursiveRelation("rltBoss", ReferenceTo("tblPerson", "id"),
                                            <<Column("expires", Null)>>)))

Skills ==
    NoUser(Relation("rltSkills", ReferenceTo("tblPerson", "id"), ReferenceTo("lutGrades", "id"), <<>>),
           "UPDATE")

\* The column the second version adds to the table of persons.
NewColumn == Column("user", {"Unique"})
NewColumnNotNull == Column("user", {"NotNull"})

Versions == <<
    <<Grades, NoUser(Person(<<>>), "DELETE")>>,
    <<Grades, NoUser(NoUser(Person(<<NewColumn>>), "DELETE"), "UPDATE"), Boss, Skills>> >>

VersionsNotNull == <<
    <<Grades, Person(<<>>)>>,
    <<Grades, Person(<<NewColumnNotNull>>)>> >>

\* What the proofs suppose of a schema, true of these.
ASSUME HypothesesHold ==
    /\ KindsAgree /\ TablesAgree /\ FlagsMeant /\ EdgesLead
    /\ NamesDiffer /\ ReferencesLead /\ ColumnsAddable
=============================================================================
