------------------------------ MODULE SimplePtr -----------------------------
(***************************************************************************)
(* simple_ptr (common/simple_ptr.h): the owning pointer whose copies and   *)
(* assignments take the object away from their source, and whose deleter   *)
(* is part of its type.                                                    *)
(***************************************************************************)
CONSTANTS
    Ptrs,       \* pointer variables
    Cells,      \* objects on the heap
    Null,
    Deleter,    \* [Ptrs -> the deleter of the pointer's type: single_destroy,
                \* multiple_destroy or clgdef_destroy]
    Made        \* [Cells -> the deleter that fits how the object was made]

VARIABLES
    ptr,        \* ptr[p]: what p wraps, Null, or "gone" outside p's lifetime
    raw,        \* objects the program holds by plain pointer
    freed,      \* objects destroyed
    crossed,    \* objects that moved between pointers of different deleters
    wrong       \* objects destroyed by a deleter that does not fit

ptrVars == <<ptr, raw, freed, crossed, wrong>>

Dead == "dead"

PtrTypeOK ==
    /\ ptr \in [Ptrs -> Cells \cup {Null, Dead}]
    /\ raw \subseteq Cells /\ freed \subseteq Cells
    /\ crossed \subseteq Cells /\ wrong \subseteq Cells

PtrInit ==
    /\ ptr = [p \in Ptrs |-> Dead]
    /\ raw = Cells
    /\ freed = {} /\ crossed = {} /\ wrong = {}

Lives(p) == ptr[p] # Dead

\* _Destroy(x) of p's type: deleting the null pointer does nothing.
Freed(p, x) ==
    IF x \in Cells
      THEN /\ freed' = freed \cup {x}
           /\ wrong' = IF Deleter[p] = Made[x] THEN wrong ELSE wrong \cup {x}
      ELSE UNCHANGED <<freed, wrong>>

\* A pointer made for a new object is given the one of its own type.
Construct(p, x) ==
    /\ ~Lives(p)
    /\ x = Null \/ (x \in raw /\ Made[x] = Deleter[p])
    /\ ptr' = [ptr EXCEPT ![p] = x]
    /\ raw' = raw \ {x}
    /\ UNCHANGED <<freed, crossed, wrong>>

\* Copying from q, perhaps of another type: the template checks the deleters
\* only where __cxx11 is defined, and does not compile there.
Crossing(p, q) ==
    crossed' = IF Deleter[p] # Deleter[q] /\ ptr[q] \in Cells
                 THEN crossed \cup {ptr[q]} ELSE crossed

CopyConstruct(p, q) ==
    /\ ~Lives(p) /\ Lives(q)
    /\ ptr' = [ptr EXCEPT ![p] = ptr[q], ![q] = Null]
    /\ Crossing(p, q)
    /\ UNCHANGED <<raw, freed, wrong>>

\* reset(q.release()): q is empty when reset compares, also if q is p itself.
Assign_Shares(p, q) ==  \* mutated form: get() for release()
    /\ Lives(p) /\ Lives(q)
    /\ IF ptr[q] # ptr[p] THEN Freed(p, ptr[p]) ELSE UNCHANGED <<freed, wrong>>
    /\ ptr' = [ptr EXCEPT ![p] = ptr[q]]
    /\ Crossing(p, q)
    /\ UNCHANGED raw

Assign(p, q) ==
    /\ Lives(p) /\ Lives(q)
    /\ LET released == [ptr EXCEPT ![q] = Null]
       IN /\ IF ptr[q] # released[p] THEN Freed(p, released[p]) ELSE UNCHANGED <<freed, wrong>>
          /\ ptr' = [released EXCEPT ![p] = ptr[q]]
    /\ Crossing(p, q)
    /\ UNCHANGED raw

\* reset(x), of a new object, of nothing, or of the object it has already.
Reset(p, x) ==
    /\ Lives(p)
    /\ x \in {Null, ptr[p]} \/ (x \in raw /\ Made[x] = Deleter[p])
    /\ IF x # ptr[p] THEN Freed(p, ptr[p]) ELSE UNCHANGED <<freed, wrong>>
    /\ ptr' = [ptr EXCEPT ![p] = x]
    /\ raw' = raw \ {x}
    /\ UNCHANGED crossed

Release(p) ==
    /\ Lives(p)
    /\ ptr' = [ptr EXCEPT ![p] = Null]
    /\ raw' = IF ptr[p] \in Cells THEN raw \cup {ptr[p]} ELSE raw
    /\ UNCHANGED <<freed, crossed, wrong>>

Destroy(p) ==
    /\ Lives(p)
    /\ Freed(p, ptr[p])
    /\ ptr' = [ptr EXCEPT ![p] = Dead]
    /\ UNCHANGED <<raw, crossed>>

PtrNext ==
    \E p \in Ptrs :
       \/ Release(p) \/ Destroy(p)
       \/ \E q \in Ptrs : CopyConstruct(p, q) \/ Assign(p, q)
       \/ \E x \in Cells \cup {Null} : Construct(p, x) \/ Reset(p, x)

PtrSpec == PtrInit /\ [][PtrNext]_ptrVars

-----------------------------------------------------------------------------

\* Every object is at any time in exactly one place: destroyed, in the program's
\* hands, or wrapped by one pointer; so none is destroyed twice or lost, also
\* when a pointer is assigned to itself or reset to what it has.
OneHolder ==
    \A x \in Cells :
        /\ x \in raw => x \notin freed
        /\ (x \in raw \/ x \in freed) <=> \A p \in Ptrs : ptr[p] # x
        /\ \A p, q \in Ptrs : ptr[p] = x /\ ptr[q] = x => p = q

\* An object is destroyed the way it was made, unless it passed between pointers
\* whose types disagree on that (simple_ptr.h:59, 68).
RightDeleter == wrong \subseteq crossed
=============================================================================
