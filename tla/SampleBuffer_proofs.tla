-------------------------- MODULE SampleBuffer_proofs --------------------------
(***************************************************************************)
(* The invariants of SampleBuffer, for every set of objects and blocks and *)
(* every bound on lengths.                                                 *)
(***************************************************************************)
EXTENDS SampleBuffer, FiniteSetTheorems, TLAPS

\* A slice of a buffer that begins with its storage, which are all that
\* makeseed takes, is inside that buffer.
SliceOfWhole ==
    \A x \in Objects :
        buffer[x] # None /\ origin[x].offset = 0 => Within(buffer[x], origin[x])

\* An object starts inside the storage, and a slice begins where it was asked
\* to: the facts that make Inside and SliceOfWhole inductive.
WindowOK ==
    \A x \in Objects : buffer[x] # None =>
        /\ buffer[x].offset + buffer[x].len <= shared[buffer[x].shared].len
        /\ origin[x] # None
        /\ origin[x].offset = 0 => Within(buffer[x], origin[x])

IInv == TypeOK /\ Live /\ Counted /\ WindowOK

LEMMA UsersFinite == \A s : IsFiniteSet(Users(s)) /\ Cardinality(Users(s)) \in Nat
<1> TAKE s
<1>1. Users(s) \subseteq Objects
  BY DEF Users
<1>2. IsFiniteSet(Users(s))
  BY <1>1, BufferAssumption, FS_Subset
<1> QED BY <1>2, FS_CardinalityType

\* A new user of a block makes its count one more; other blocks keep theirs.
LEMMA UsersGrow ==
  ASSUME TypeOK, NEW x \in Objects, buffer[x] = None, NEW b \in Buffer,
         buffer' = [buffer EXCEPT ![x] = b]
  PROVE  \A s : /\ s = b.shared => /\ Users(s)' # {}
                                   /\ Cardinality(Users(s)') = Cardinality(Users(s)) + 1
                /\ s # b.shared => Users(s)' = Users(s)
<1> TAKE s
<1>1. b # None
  BY BufferAssumption
<1>2. CASE s = b.shared
  <2>1. Users(s)' = Users(s) \cup {x} /\ x \notin Users(s)
    BY <1>1, <1>2 DEF Users, TypeOK
  <2>2. Cardinality(Users(s) \cup {x}) = Cardinality(Users(s)) + 1
    BY <2>1, UsersFinite, FS_AddElement
  <2> QED BY <1>2, <2>1, <2>2
<1>3. CASE s # b.shared
  <2>1. Users(s)' = Users(s)
    BY <1>1, <1>3 DEF Users, TypeOK
  <2> QED BY <1>3, <2>1
<1> QED BY <1>2, <1>3

\* A user less makes the count of its block one less.
LEMMA UsersShrink ==
  ASSUME TypeOK, NEW x \in Objects, buffer[x] # None,
         buffer' = [buffer EXCEPT ![x] = None]
  PROVE  \A s : /\ s = buffer[x].shared =>
                       /\ Users(s) # {}
                       /\ Cardinality(Users(s)') = Cardinality(Users(s)) - 1
                       /\ Users(s)' = {} <=> Cardinality(Users(s)) = 1
                /\ s # buffer[x].shared => Users(s)' = Users(s)
<1> TAKE s
<1>1. CASE s = buffer[x].shared
  <2>1. Users(s)' = Users(s) \ {x} /\ x \in Users(s)
    BY <1>1 DEF Users, TypeOK
  <2>2. /\ IsFiniteSet(Users(s) \ {x})
        /\ Cardinality(Users(s) \ {x}) = Cardinality(Users(s)) - 1
    BY <2>1, UsersFinite, FS_RemoveElement
  <2>3. Cardinality(Users(s) \ {x}) = 0 <=> Users(s) \ {x} = {}
    BY <2>2, FS_EmptySet
  <2>4. Cardinality(Users(s)) \in Nat
    BY UsersFinite
  <2> HIDE DEF Users
  <2>5. Users(s)' = {} <=> Cardinality(Users(s)) = 1
    BY <2>1, <2>2, <2>3, <2>4
  <2> QED BY <1>1, <2>1, <2>2, <2>5
<1>2. CASE s # buffer[x].shared
  <2>1. Users(s)' = Users(s)
    BY <1>2 DEF Users, TypeOK
  <2> QED BY <1>2, <2>1
<1> QED BY <1>1, <1>2

\* An object in use is a record, and so is the storage it uses.
LEMMA InUse ==
  ASSUME TypeOK, Live, NEW x \in Objects, buffer[x] # None
  PROVE  /\ buffer[x] \in Buffer
         /\ buffer[x].shared \in Blocks
         /\ shared[buffer[x].shared] \in Shared
<1>1. buffer[x] \in Buffer
  BY DEF TypeOK
<1>2. buffer[x].shared \in Blocks
  BY <1>1 DEF Buffer
<1> QED BY <1>1, <1>2 DEF TypeOK, Live

LEMMA InitIInv == Init => IInv
<1> SUFFICES ASSUME Init PROVE IInv
  OBVIOUS
<1>1. TypeOK
  BY DEF Init, TypeOK
<1>2. \A x \in Objects : buffer[x] = None
  BY DEF Init
<1>3. \A s \in Blocks : shared[s] = None /\ Users(s) = {}
  BY <1>2 DEF Init, Users
<1> QED BY <1>1, <1>2, <1>3 DEF IInv, Live, Counted, WindowOK

LEMMA NewStep ==
  ASSUME IInv, NEW x \in Objects, NEW s \in Blocks, NEW len \in Nat, New(x, s, len)
  PROVE  IInv'
<1> DEFINE b == [offset |-> 0, len |-> len, shared |-> s]
           m == [refcnt |-> 1, len |-> len]
           w == [offset |-> 0, len |-> len]
<1>1. /\ b \in Buffer /\ b.shared = s /\ b.offset = 0 /\ b.len = len
      /\ m \in Shared /\ m.refcnt = 1 /\ m.len = len
      /\ w \in Window /\ w.offset = 0 /\ w.len = len
      /\ b # None /\ m # None /\ w # None
  BY BufferAssumption DEF New, Buffer, Shared, Window
<1>2. /\ buffer[x] = None /\ shared[s] = None
      /\ buffer' = [buffer EXCEPT ![x] = b]
      /\ shared' = [shared EXCEPT ![s] = m]
      /\ origin' = [origin EXCEPT ![x] = w]
  BY DEF New
<1> HIDE DEF b, m, w
<1>3. TypeOK /\ Live /\ Counted /\ WindowOK
  BY DEF IInv
<1>4. TypeOK'
  BY <1>1, <1>2, <1>3 DEF TypeOK
<1>5. Users(s) = {}
  BY <1>2, <1>3 DEF Users, Live
<1>6. /\ Users(s)' # {} /\ Cardinality(Users(s)') = 1
      /\ \A t \in Blocks : t # s => Users(t)' = Users(t)
  <2>1. \A t : /\ t = s => /\ Users(t)' # {}
                           /\ Cardinality(Users(t)') = Cardinality(Users(t)) + 1
               /\ t # s => Users(t)' = Users(t)
    BY <1>1, <1>2, <1>3, UsersGrow
  <2>2. Cardinality(Users(s)) = 0
    BY <1>5, FS_EmptySet
  <2> QED BY <2>1, <2>2
<1>7. \A t \in Blocks : shared'[t] = IF t = s THEN m ELSE shared[t]
  BY <1>2, <1>3 DEF TypeOK
<1>8. \A y \in Objects : /\ buffer'[y] = IF y = x THEN b ELSE buffer[y]
                         /\ origin'[y] = IF y = x THEN w ELSE origin[y]
  BY <1>2, <1>3 DEF TypeOK
<1>9. \A y \in Objects : buffer[y] # None => /\ buffer[y].shared # s
                                             /\ buffer[y].shared \in Blocks
  BY <1>2, <1>3, InUse DEF Live
<1>10. Live'
  BY <1>1, <1>7, <1>8, <1>9, <1>3 DEF Live
<1>11. Counted'
  <2> SUFFICES ASSUME NEW t \in Blocks
               PROVE  IF Users(t)' = {} THEN shared'[t] = None
                      ELSE shared'[t] # None =>
                               shared'[t].refcnt = Cardinality(Users(t)')
    BY DEF Counted
  <2>1. CASE t = s
    BY <2>1, <1>1, <1>6, <1>7
  <2>2. CASE t # s
    BY <2>2, <1>3, <1>6, <1>7 DEF Counted
  <2> QED BY <2>1, <2>2
<1>12. WindowOK'
  <2> SUFFICES ASSUME NEW y \in Objects, buffer'[y] # None
               PROVE  /\ buffer'[y].offset + buffer'[y].len
                             <= shared'[buffer'[y].shared].len
                      /\ origin'[y] # None
                      /\ origin'[y].offset = 0 => Within(buffer'[y], origin'[y])
    BY DEF WindowOK, Within
  <2>1. CASE y = x
    BY <2>1, <1>1, <1>7, <1>8 DEF Within
  <2>2. CASE y # x
    BY <2>2, <1>3, <1>7, <1>8, <1>9 DEF WindowOK
  <2> QED BY <2>1, <2>2
<1> QED BY <1>4, <1>10, <1>11, <1>12 DEF IInv

LEMMA SliceStep ==
  ASSUME IInv, NEW x \in Objects, NEW y \in Objects, NEW len \in Int,
         NEW offset \in Int, Slice(x, y, len, offset)
  PROVE  IInv'
<1>1. TypeOK /\ Live /\ Counted /\ WindowOK
  BY DEF IInv
<1>2. PICK s \in Blocks : s = buffer[y].shared
  BY <1>1, InUse DEF Slice
<1> DEFINE b == [offset |-> offset, len |-> len, shared |-> s]
           m == [shared[s] EXCEPT !.refcnt = @ + 1]
           w == WindowOf(buffer[y])
<1>3. /\ buffer[x] = None /\ buffer[y] # None
      /\ Fits(buffer[y], len, offset)
      /\ buffer' = [buffer EXCEPT ![x] = b]
      /\ shared' = [shared EXCEPT ![s] = m]
      /\ origin' = [origin EXCEPT ![x] = w]
  BY <1>2 DEF Slice, Ref
<1>4. buffer[y] \in Buffer /\ shared[s] \in Shared
  BY <1>3, <1>1, <1>2, InUse
<1>5. shared[s].refcnt = Cardinality(Users(s))
  <2>1. y \in Users(s)
    BY <1>3, <1>2 DEF Users
  <2>2. shared[s] # None
    BY <1>4, BufferAssumption
  <2> QED BY <1>4, <1>1, <2>1, <2>2 DEF Counted
<1>6. /\ b \in Buffer /\ b.shared = s /\ b.offset = offset /\ b.len = len
      /\ m \in Shared /\ m.refcnt = shared[s].refcnt + 1 /\ m.len = shared[s].len
      /\ w \in Window /\ w.offset = buffer[y].offset /\ w.len = buffer[y].len
      /\ b # None /\ m # None /\ w # None
  <2>1. offset \in Nat /\ len \in Nat \ {0}
    BY <1>3 DEF Fits
  <2>2. b \in Buffer /\ b.shared = s /\ b.offset = offset /\ b.len = len
    BY <1>4, <2>1 DEF Buffer
  <2>3. m \in Shared /\ m.refcnt = shared[s].refcnt + 1 /\ m.len = shared[s].len
    BY <1>4 DEF Shared
  <2>4. w \in Window /\ w.offset = buffer[y].offset /\ w.len = buffer[y].len
    BY <1>4 DEF Buffer, Window, WindowOf
  <2> QED BY <2>2, <2>3, <2>4, BufferAssumption
<1>7. /\ len <= buffer[y].len - offset /\ offset >= 0 /\ len > 0
      /\ buffer[y].offset \in Nat /\ buffer[y].len \in Nat /\ shared[s].len \in Nat
      /\ buffer[y].offset + buffer[y].len <= shared[s].len
  BY <1>3, <1>1, <1>4, <1>2 DEF Fits, Buffer, Shared, WindowOK
<1> HIDE DEF b, m, w
<1>8. TypeOK'
  BY <1>6, <1>3, <1>1 DEF TypeOK
<1>9. /\ Users(s)' # {} /\ Cardinality(Users(s)') = Cardinality(Users(s)) + 1
      /\ \A t \in Blocks : t # s => Users(t)' = Users(t)
  <2>1. \A t : /\ t = s => /\ Users(t)' # {}
                           /\ Cardinality(Users(t)') = Cardinality(Users(t)) + 1
               /\ t # s => Users(t)' = Users(t)
    BY <1>6, <1>3, <1>1, UsersGrow
  <2> QED BY <2>1
<1>10. \A t \in Blocks : shared'[t] = IF t = s THEN m ELSE shared[t]
  BY <1>3, <1>1 DEF TypeOK
<1>11. \A z \in Objects : /\ buffer'[z] = IF z = x THEN b ELSE buffer[z]
                         /\ origin'[z] = IF z = x THEN w ELSE origin[z]
  BY <1>3, <1>1 DEF TypeOK
<1>12. \A z \in Objects : buffer[z] # None => buffer[z].shared \in Blocks
  BY <1>1, InUse
<1>13. Live'
  BY <1>6, <1>1, <1>10, <1>11, <1>12, <1>4 DEF Live
<1>14. Counted'
  <2> SUFFICES ASSUME NEW t \in Blocks
               PROVE  IF Users(t)' = {} THEN shared'[t] = None
                      ELSE shared'[t] # None =>
                               shared'[t].refcnt = Cardinality(Users(t)')
    BY DEF Counted
  <2>1. CASE t = s
    BY <2>1, <1>6, <1>9, <1>10, <1>5
  <2>2. CASE t # s
    BY <2>2, <1>1, <1>9, <1>10 DEF Counted
  <2> QED BY <2>1, <2>2
<1>15. WindowOK'
  <2> SUFFICES ASSUME NEW z \in Objects, buffer'[z] # None
               PROVE  /\ buffer'[z].offset + buffer'[z].len
                             <= shared'[buffer'[z].shared].len
                      /\ origin'[z] # None
                      /\ origin'[z].offset = 0 => Within(buffer'[z], origin'[z])
    BY DEF WindowOK, Within
  <2>1. CASE z = x
    BY <2>1, <1>6, <1>10, <1>11, <1>4, <1>7 DEF Within
  <2>2. CASE z # x
    <3>1. buffer'[z] = buffer[z] /\ origin'[z] = origin[z] /\ buffer[z] # None
      BY <2>2, <1>11
    <3>2. shared'[buffer[z].shared].len = shared[buffer[z].shared].len
      BY <3>1, <1>6, <1>10, <1>12
    <3> QED BY <3>1, <3>2, <1>1 DEF WindowOK
  <2> QED BY <2>1, <2>2
<1> QED BY <1>8, <1>13, <1>14, <1>15 DEF IInv

LEMMA DestroyStep ==
  ASSUME IInv, NEW x \in Objects, Destroy(x)
  PROVE  IInv'
<1>1. TypeOK /\ Live /\ Counted /\ WindowOK
  BY DEF IInv
<1>2. PICK s \in Blocks : s = buffer[x].shared
  BY <1>1, InUse DEF Destroy
<1> DEFINE m == [shared[s] EXCEPT !.refcnt = @ - 1]
           left == IF shared[s].refcnt - 1 <= 0 THEN None ELSE m
<1>3. /\ buffer[x] # None
      /\ buffer' = [buffer EXCEPT ![x] = None]
      /\ shared' = [shared EXCEPT ![s] = left]
      /\ origin' = [origin EXCEPT ![x] = None]
  BY <1>2 DEF Destroy, Unref
<1>4. buffer[x] \in Buffer /\ shared[s] \in Shared
  BY <1>1, <1>3, <1>2, InUse
<1>5. shared[s].refcnt = Cardinality(Users(s))
  <2>1. x \in Users(s)
    BY <1>3, <1>2 DEF Users
  <2>2. shared[s] # None
    BY <1>4, BufferAssumption
  <2> QED BY <1>1, <1>4, <2>1, <2>2 DEF Counted
<1>6. /\ m \in Shared /\ m # None /\ m.len = shared[s].len
      /\ m.refcnt = shared[s].refcnt - 1
  BY <1>4, BufferAssumption DEF Shared
<1>7. /\ Users(s) # {}
      /\ Cardinality(Users(s)') = Cardinality(Users(s)) - 1
      /\ Users(s)' = {} <=> Cardinality(Users(s)) = 1
      /\ \A t \in Blocks : t # s => Users(t)' = Users(t)
  <2>1. \A t : /\ t = s => /\ Users(t) # {}
                           /\ Cardinality(Users(t)') = Cardinality(Users(t)) - 1
                           /\ Users(t)' = {} <=> Cardinality(Users(t)) = 1
               /\ t # s => Users(t)' = Users(t)
    BY <1>1, <1>3, <1>2, UsersShrink
  <2> QED BY <2>1
\* The storage is freed exactly when x was its only user.
<1>8. left = IF Users(s)' = {} THEN None ELSE m
  <2>1. Cardinality(Users(s)) \in Nat /\ Cardinality(Users(s)) # 0
    BY <1>7, UsersFinite, FS_EmptySet
  <2> HIDE DEF m
  <2> QED BY <1>5, <1>7, <2>1
<1> HIDE DEF m, left
<1>9. \A t \in Blocks : shared'[t] = IF t = s THEN left ELSE shared[t]
  BY <1>1, <1>3 DEF TypeOK
<1>10. \A z \in Objects : /\ buffer'[z] = IF z = x THEN None ELSE buffer[z]
                         /\ origin'[z] = IF z = x THEN None ELSE origin[z]
  BY <1>1, <1>3 DEF TypeOK
<1>11. TypeOK'
  BY <1>1, <1>3, <1>6, <1>8 DEF TypeOK
<1>12. ASSUME NEW z \in Objects, buffer'[z] # None
       PROVE  /\ buffer'[z] = buffer[z] /\ origin'[z] = origin[z]
              /\ buffer[z] # None /\ buffer[z].shared \in Blocks
              /\ shared'[buffer[z].shared] # None
              /\ shared'[buffer[z].shared].len = shared[buffer[z].shared].len
  <2>1. /\ buffer'[z] = buffer[z] /\ origin'[z] = origin[z] /\ buffer[z] # None
    BY <1>10, <1>12
  <2>2. buffer[z].shared \in Blocks /\ shared[buffer[z].shared] # None
    BY <1>1, <2>1, InUse DEF Live
  <2>3. CASE buffer[z].shared = s
    <3>1. z \in Users(s)'
      BY <1>12, <2>1, <2>3 DEF Users
    <3>2. left = m
      BY <1>8, <3>1
    <3> QED BY <1>6, <1>9, <2>1, <2>2, <2>3, <3>2
  <2>4. CASE buffer[z].shared # s
    BY <1>9, <2>1, <2>2, <2>4
  <2> QED BY <2>3, <2>4
<1>13. Live'
  BY <1>12 DEF Live
<1>14. Counted'
  <2> SUFFICES ASSUME NEW t \in Blocks
               PROVE  IF Users(t)' = {} THEN shared'[t] = None
                      ELSE shared'[t] # None =>
                               shared'[t].refcnt = Cardinality(Users(t)')
    BY DEF Counted
  <2>1. CASE t = s
    BY <2>1, <1>5, <1>6, <1>7, <1>8, <1>9
  <2>2. CASE t # s
    BY <2>2, <1>1, <1>7, <1>9 DEF Counted
  <2> QED BY <2>1, <2>2
<1>15. WindowOK'
  BY <1>1, <1>12 DEF WindowOK, Within
<1> QED BY <1>11, <1>13, <1>14, <1>15 DEF IInv

LEMMA Stutter == IInv /\ UNCHANGED vars => IInv'
  BY DEF IInv, vars, TypeOK, Live, Counted, Users, WindowOK, Within

LEMMA StepIInv == IInv /\ [Next]_vars => IInv'
<1> SUFFICES ASSUME IInv, [Next]_vars PROVE IInv'
  OBVIOUS
<1>1. ASSUME NEW x \in Objects, NEW s \in Blocks, NEW len \in 0 .. MaxLen,
             New(x, s, len)
      PROVE  IInv'
  BY <1>1, NewStep
<1>2. ASSUME NEW x \in Objects, NEW y \in Objects, NEW len \in 0 .. MaxLen,
             NEW offset \in -1 .. MaxLen, Slice(x, y, len, offset)
      PROVE  IInv'
  BY <1>2, SliceStep
<1>3. ASSUME NEW x \in Objects, Destroy(x) PROVE IInv'
  BY <1>3, DestroyStep
<1> QED BY <1>1, <1>2, <1>3, Stutter DEF Next

LEMMA Invariant == Spec => []IInv
  BY InitIInv, StepIInv, PTL DEF Spec

\* Every window is a window: none is empty or begins before its storage,
\* whatever slices are asked for.
THEOREM TypeCorrect == Spec => []TypeOK
<1>1. IInv => TypeOK
  BY DEF IInv
<1> QED BY <1>1, Invariant, PTL

\* Storage without a user is freed: refcnt is the number of its users.
THEOREM NoLeak == Spec => []Counted
<1>1. IInv => Counted
  BY DEF IInv
<1> QED BY <1>1, Invariant, PTL

\* unref never frees storage that a SampleBuffer still uses, in whatever order
\* slices are collected, and the test in slice keeps every window inside it.
THEOREM InsideStorage == Spec => []Inside
<1>1. IInv => Inside
  BY DEF IInv, WindowOK, Inside
<1> QED BY <1>1, Invariant, PTL

\* A slice of a buffer that begins with its storage is inside that buffer.
THEOREM SlicesOfWhole == Spec => []SliceOfWhole
<1>1. IInv => SliceOfWhole
  BY DEF IInv, WindowOK, SliceOfWhole
<1> QED BY <1>1, Invariant, PTL
=============================================================================
