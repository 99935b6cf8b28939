----------------------------- MODULE SampleBuffer -----------------------------
(***************************************************************************)
(* SampleBuffer objects: each is a window onto storage that it shares with *)
(* the buffers sliced from it.  The storage counts its windows and is      *)
(* freed with the last of them.                                            *)
(*                                                                         *)
(* Left out are the samples themselves (what is read and written follows   *)
(* from the windows) and what the storage says about all of them: the      *)
(* channel and the number of the first sample.                             *)
(***************************************************************************)
EXTENDS Integers, FiniteSets

CONSTANTS
    Objects,    \* the objects of class SampleBuffer
    Blocks,     \* memory for shared storage
    MaxLen,     \* bound: samples in a buffer
    None        \* an object or a block that is not in use

Window == [offset : Nat, len : Nat \ {0}]
Buffer == [offset : Nat, len : Nat \ {0}, shared : Blocks]
Shared == [refcnt : Int, len : Nat \ {0}]

ASSUME BufferAssumption ==
    /\ IsFiniteSet(Objects)
    /\ MaxLen \in Nat \ {0}
    /\ None \notin Window
    /\ None \notin Buffer
    /\ None \notin Shared

VARIABLES
    buffer,  \* mrb_sample_buffer of each object
    shared,  \* mrb_shared_sample_buffer in each block
    origin   \* history: the window of the buffer that the object was sliced of,
             \* and its own for an object that was not sliced

vars == << buffer, shared, origin >>

WindowOf(b) == [offset |-> b.offset, len |-> b.len]

Init ==
    /\ buffer = [x \in Objects |-> None]
    /\ shared = [s \in Blocks |-> None]
    /\ origin = [x \in Objects |-> None]

\* initialize, mrb_sample_buffer_new and its variants.
New(x, s, len) ==
    /\ len > 0
    /\ buffer[x] = None
    /\ shared[s] = None
    /\ buffer' = [buffer EXCEPT ![x] = [offset |-> 0, len |-> len, shared |-> s]]
    /\ shared' = [shared EXCEPT ![s] = [refcnt |-> 1, len |-> len]]
    /\ origin' = [origin EXCEPT ![x] = [offset |-> 0, len |-> len]]

Ref_bugNone(s) == shared' = shared

Ref(s) == shared' = [shared EXCEPT ![s].refcnt = @ + 1]

Unref(s) ==
    shared' = IF shared[s].refcnt - 1 <= 0 THEN [shared EXCEPT ![s] = None]
              ELSE [shared EXCEPT ![s].refcnt = @ - 1]

\* The test of slice on its arguments.
Fits_bugOffset(b, len, offset) == len > 0 /\ offset >= 0 /\ len <= b.len

Fits_bugSign(b, len, offset) == len > 0 /\ len <= b.len - offset

Fits(b, len, offset) == len > 0 /\ offset >= 0 /\ len <= b.len - offset

\* slice: the new object x is a window onto the storage of y.
Slice(x, y, len, offset) ==
    /\ buffer[x] = None
    /\ buffer[y] # None
    /\ Fits(buffer[y], len, offset)
    /\ buffer' = [buffer EXCEPT ![x] = [offset |-> offset, len |-> len,
                                        shared |-> buffer[y].shared]]
    /\ Ref(buffer[y].shared)
    /\ origin' = [origin EXCEPT ![x] = WindowOf(buffer[y])]

\* The garbage collector destroys an object, in any order.
Destroy(x) ==
    /\ buffer[x] # None
    /\ buffer' = [buffer EXCEPT ![x] = None]
    /\ Unref(buffer[x].shared)
    /\ origin' = [origin EXCEPT ![x] = None]

Next ==
    \/ \E x \in Objects, s \in Blocks, len \in 0 .. MaxLen : New(x, s, len)
    \/ \E x, y \in Objects, len \in 0 .. MaxLen, offset \in -1 .. MaxLen :
           Slice(x, y, len, offset)
    \/ \E x \in Objects : Destroy(x)

Spec == Init /\ [][Next]_vars

-----------------------------------------------------------------------------
(***************************************************************************)
(* Properties                                                              *)
(***************************************************************************)

\* Every variable has its type: in particular no window is empty or begins
\* before its storage, whatever slice is asked for.
TypeOK ==
    /\ buffer \in [Objects -> Buffer \cup {None}]
    /\ shared \in [Blocks -> Shared \cup {None}]
    /\ origin \in [Objects -> Window \cup {None}]

\* The objects that are windows onto the storage in block s.
Users(s) == {x \in Objects : buffer[x] # None /\ buffer[x].shared = s}

\* The storage of an object is there as long as the object: in no order of
\* slicing and collecting is memory used after it was freed.
Live ==
    \A x \in Objects : buffer[x] # None => shared[buffer[x].shared] # None

\* Storage is freed with the last object that uses it, and counts them before.
Counted ==
    \A s \in Blocks :
        IF Users(s) = {} THEN shared[s] = None
        ELSE shared[s] # None => shared[s].refcnt = Cardinality(Users(s))

\* No index inside a buffer is outside its storage, slices of slices included,
\* and the storage is still there, whatever was collected.
Inside ==
    /\ Live
    /\ \A x \in Objects : buffer[x] # None =>
           buffer[x].offset + buffer[x].len <= shared[buffer[x].shared].len

Within(b, w) == w.offset <= b.offset /\ b.offset + b.len <= w.offset + w.len

\* "Slice must be completely inside the buffer" (sample_buffer.c:157).
SliceInside ==
    \A x \in Objects : buffer[x] # None => Within(buffer[x], origin[x])
=============================================================================
