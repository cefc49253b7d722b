------------------------------ MODULE TaskPool ------------------------------
(***************************************************************************)
(* The task pool contract used by the job tracker: ResourceManager (map    *)
(* splits) and IdManager (reduce ids).  Their code is not part of this     *)
(* repository's sources, so every operator here follows the contract of    *)
(* spec.md section 4.1; the tracker (job_tracker.cc) calls them as         *)
(* GetItem, GetCertainItem, FinishItem, ReturnBackItem, IsAllocated,       *)
(* IsDone and Done.  Each call is atomic: the managers hold their own      *)
(* mutex.                                                                  *)
(*                                                                         *)
(* A pool is a function from task number to a record                      *)
(*   status    : Pending, Allocated or Done                                *)
(*   attempt   : the last attempt number handed out (0 before any)         *)
(*   allocated : the number of hand-outs not yet returned                  *)
(***************************************************************************)
EXTENDS Integers, FiniteSets

Pending   == "Pending"
Allocated == "Allocated"
Done      == "Done"
ResStatus == {Pending, Allocated, Done}

\* A fresh pool of n items: every item Pending, never handed out.
NewPool(n) == [no \in 0 .. n - 1 |-> [status |-> Pending, attempt |-> 0, allocated |-> 0]]

Items(pl) == DOMAIN pl

\* Next(): the lowest-numbered Pending item, or -1 when there is none.
NextPending(pl) ==
    LET P == {no \in Items(pl) : pl[no].status = Pending}
    IN  IF P = {} THEN -1 ELSE CHOOSE no \in P : \A o \in P : no <= o

\* Hand out item no: it becomes Allocated and gets a fresh attempt number.
HandOut(pl, no) ==
    [pl EXCEPT ![no] = [status |-> Allocated,
                        attempt |-> @.attempt + 1,
                        allocated |-> @.allocated + 1]]

\* GetItem(): hand out the lowest Pending item (the caller checks NextPending).
GetItem(pl) == HandOut(pl, NextPending(pl))

\* GetCertainItem(no) (Take): a duplicate of an item that is still Allocated.
CanTake(pl, no) == no \in Items(pl) /\ pl[no].status = Allocated
GetCertainItem(pl, no) == HandOut(pl, no)

\* FinishItem(no): TRUE iff this call moved the item to Done.
CanFinish(pl, no) == pl[no].status # Done
FinishItem(pl, no) ==
    IF CanFinish(pl, no)
    THEN [pl EXCEPT ![no] = [@ EXCEPT !.status = Done, !.allocated = 0]]
    ELSE pl

\* A faulty ReturnBackItem that never makes the item Pending again.
ReturnBackItemNoReset(pl, no) ==
    IF pl[no].status = Allocated THEN [pl EXCEPT ![no].allocated = @ - 1] ELSE pl

\* ReturnBackItem(no): one hand-out is given back; the last one returned
\* makes the item Pending again.  Returning a Done item is a no-op.
ReturnBackItem(pl, no) ==
    IF pl[no].status = Allocated
    THEN [pl EXCEPT ![no] =
            IF @.allocated = 1 THEN [@ EXCEPT !.status = Pending, !.allocated = 0]
                               ELSE [@ EXCEPT !.allocated = @ - 1]]
    ELSE pl

IsAllocated(pl, no) == pl[no].status = Allocated
IsDone(pl, no)      == pl[no].status = Done
DoneCount(pl)       == Cardinality({no \in Items(pl) : pl[no].status = Done})

=============================================================================
