---------------------------- MODULE MinionTags ----------------------------
(***************************************************************************)
(* An agent edits the tags of its minion: agtsvc.tagService.Update.        *)
(***************************************************************************)
EXTENDS Requests

CONSTANTS
    Tags

VARIABLES
    tags,     \* the minion's rows of minion_tag
    deleted,  \* (external) the manager has deleted the minion
    edit,     \* request -> its progress
    owed,     \* ghost: the tags after every edit answered with success, one after the other
    raced     \* ghost: two edits overlapped

tagVars == <<tags, deleted, edit, owed, raced>>

NoEdit == [pc |-> "idle", add |-> {}, del |-> {}, olds |-> {}]

TagInit ==
    /\ tags \in SUBSET Tags /\ owed = tags
    /\ deleted = FALSE
    /\ edit = [r \in Request |-> NoEdit]
    /\ raced = FALSE
    /\ faults = 0

\* External: model.MinionTags.Minion.
Edited(olds, del, add) == (olds \ del) \cup add

EditEnds(r) == edit' = [edit EXCEPT ![r] = NoEdit]

\* Tag: an empty request is answered at once.
EditArrives(r, add, del) ==
    /\ edit[r].pc = "idle" /\ add \cup del # {}
    /\ edit' = [edit EXCEPT ![r] = [NoEdit EXCEPT !.pc = "minion", !.add = add, !.del = del]]
    /\ raced' = (raced \/ \E x \in Request : edit[x].pc # "idle")
    /\ UNCHANGED <<tags, deleted, owed, faults>>

\* The minion must exist and not be deleted.
CheckMinion(r) ==
    /\ edit[r].pc = "minion"
    /\ \/ ~deleted /\ edit' = [edit EXCEPT ![r].pc = "olds"] /\ UNCHANGED faults
       \/ deleted /\ EditEnds(r) /\ UNCHANGED faults
       \/ Fails /\ EditEnds(r)
    /\ UNCHANGED <<tags, deleted, owed, raced>>

\* The present tags, read outside the transaction.
FindOlds(r) ==
    /\ edit[r].pc = "olds"
    /\ \/ edit' = [edit EXCEPT ![r] = [@ EXCEPT !.pc = "tx", !.olds = tags]] /\ UNCHANGED faults
       \/ Fails /\ EditEnds(r)
    /\ UNCHANGED <<tags, deleted, owed, raced>>

\* The transaction: delete every tag, insert the new ones.  (The push of tasks that
\* follows is TagUpdate of TaskSync.)
Rewrite(r) ==
    /\ edit[r].pc = "tx"
    /\ \/ /\ tags' = Edited(edit[r].olds, edit[r].del, edit[r].add)
          /\ owed' = Edited(owed, edit[r].del, edit[r].add)
          /\ UNCHANGED faults
       \/ Fails /\ UNCHANGED <<tags, owed>>
    /\ EditEnds(r)
    /\ UNCHANGED <<deleted, raced>>

\* External: the manager deletes the minion.
MinionDeleted ==
    /\ ~deleted /\ deleted' = TRUE
    /\ UNCHANGED <<tags, edit, owed, raced, faults>>

TagStep == \E r \in Request : CheckMinion(r) \/ FindOlds(r) \/ Rewrite(r)

TagNext ==
    \/ TagStep \/ MinionDeleted
    \/ \E r \in Request, add, del \in SUBSET Tags : EditArrives(r, add, del)
-----------------------------------------------------------------------------
(* Properties. *)

\* Edits that do not overlap are all kept, also when others fail at any statement: the
\* tags are those of the successful edits one after the other.  (Overlapping edits lose
\* one another's changes: olds is read outside the transaction.)
TagsKept == ~raced => tags = owed
=============================================================================
