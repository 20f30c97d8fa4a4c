------------------------------ MODULE MCTasks -------------------------------
\* Instances of Tasks for TLC; the ids are interchangeable.
EXTENDS Tasks, TLC

VARIABLE part \* which part the behaviour belongs to

Plain(header, spec, depends) ==
  [header |-> header, status |-> "OPEN", resolution |-> "",
   spec |-> spec, depends |-> depends]

\* Every open task with any relationships, and a legacy task without.
OpenDrafts == {Plain("strict", s, d) : s \in Id \cup {None}, d \in SUBSET Id}
                \cup {Plain("legacy", None, {})}

NoChange == [status |-> Keep, resolution |-> Keep, spec |-> Keep, depends |-> Keep]
Relate == {[NoChange EXCEPT !.spec = s, !.depends = d] :
             s \in Id \cup {None, Keep}, d \in (SUBSET Id) \cup {Keep}}
Outcome == {[NoChange EXCEPT !.status = st, !.resolution = r] :
              st \in {"OPEN", "CLOSED", Keep}, r \in {"", "DONE", "CANCELLED", Keep}}
RelateOrOutcome == Relate \cup Outcome

\* One change to every database of three drafts, with a death half way; everything the tools
\* do, from nothing; and tags that are not UTF-8, in drafts of one relationship at most.
OnDrafts == INSTANCE Tasks WITH Drafts <- OpenDrafts, Changes <- Relate, Commands <- {"new", "set", "crash", "io"}
OnTags == INSTANCE Tasks WITH Drafts <- {t \in OpenDrafts : Cardinality(Edges(t)) < 2}, Changes <- {},
                              Commands <- {"ls-update"}, Actions <- {"garble", "clean"}

PartsInit == \/ part = "drafts" /\ OnDrafts!Init
             \/ part = "tags" /\ OnTags!Init
             \/ part = "tools" /\ Init
PartsNext == /\ \/ part = "drafts" /\ OnDrafts!Next
                \/ part = "tags" /\ OnTags!Next
                \/ part = "tools" /\ Next
             /\ UNCHANGED part
PartsSpec == PartsInit /\ [][PartsNext]_<<vars, part>>

Symmetry == Permutations(Id)
=============================================================================
