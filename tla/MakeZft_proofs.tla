---------------------------- MODULE MakeZft_proofs ----------------------------
(***************************************************************************)
(* The safety properties of MakeZft for every set of cards and number of   *)
(* channels.                                                               *)
(***************************************************************************)
EXTENDS MakeZft, TLAPS

HeaderSet == [start : 1 .. Len(card), number : 1 .. NChannels,
              count : {NChannels}, skew : BOOLEAN]
EntrySet == [from : 1 .. Len(card), nth : Nat, lost : BOOLEAN]

\* Where frame k begins, the place behind the last frame included.
At(k)   == IF k = 1 THEN 0 ELSE card[k - 1].at + card[k - 1].n
Gone(k) == IF k = 1 THEN 0 ELSE card[k - 1].gone + Silent(card[k - 1])

\* The turns of f.lost.times that are done.
Done == IF fill > 0 THEN card[next].n - fill ELSE 0

Entry(k, i) == [from |-> k, nth |-> i, lost |-> card[k].kind = "lost"]
InFile(e)   == \E j \in 1 .. Len(file.frames) : file.frames[j] = e

RowTrue(r) ==
    /\ r.volt = Latest("volt", r.temp)
    /\ IF Latest("stamp", r.temp) = 0 THEN IsFirstStamp(r.time)
       ELSE r.time = Latest("stamp", r.temp)

Scanning ==
    status = "scan" => /\ start = 0
                       /\ \A j \in 1 .. next - 1 : card[j].kind # "stamp"

Started ==
    /\ start > 0 => IsFirstStamp(start)
    /\ status \in {"create", "headers", "frames", "closed"} => start > 0

\* Nothing is copied before the headers are complete.
Early ==
    status \in {"scan", "create", "headers"} =>
        /\ file.frames = << >> /\ rows = << >> /\ fill = 0 /\ volt = 0 /\ t = start

Headed ==
    /\ \A c \in 1 .. Len(file.headers) : file.headers[c].start = start
    /\ status \in {"scan", "create"} => zft.count = 0 /\ zft.written = FALSE
    /\ status = "headers" => zft.written = FALSE
    /\ status # "aborted" => Len(file.headers) = zft.count
    /\ status \in {"frames", "closed"} => zft.count = NChannels

Placed ==
    \A i \in 1 .. Len(file.frames) :
        i - 1 + card[file.frames[i].from].gone
            = card[file.frames[i].from].at + file.frames[i].nth

InPlace == status = "frames" => Len(file.frames) + Gone(next) = At(next) + Done

CopiedDone ==
    status = "frames" => \A i \in 0 .. Done - 1 : InFile(Entry(next, i))

Joined ==
    status = "frames" =>
        /\ volt = Latest("volt", next)
        /\ t = IF Latest("stamp", next) = 0 THEN start ELSE Latest("stamp", next)

IInv ==
    /\ card \in Cards
    /\ TypeOK /\ Scanning /\ Started /\ Early /\ Headed
    /\ Layout /\ Placed /\ InPlace /\ AllIn /\ CopiedDone /\ Joined /\ RowsTrue

-----------------------------------------------------------------------------
\* What is known of the frames of a card.
LEMMA CardFacts ==
  ASSUME card \in Cards
  PROVE  /\ card \in Seq(Frame) /\ Len(card) \in Nat
         /\ \A k \in 1 .. Len(card) :
              /\ card[k] \in Frame
              /\ card[k].n \in Nat /\ card[k].at \in Nat /\ card[k].gone \in Nat
              /\ card[k].kind \in Kinds
              /\ card[k].kind = "sample" => card[k].n = 1
              /\ card[k].kind \in {"stamp", "volt", "temp", "end"} => card[k].n = 0
              /\ card[k].at = At(k) /\ card[k].gone = Gone(k)
              /\ Silent(card[k]) \in Nat
              /\ At(k + 1) = card[k].at + card[k].n
              /\ Gone(k + 1) = card[k].gone + Silent(card[k])
<1>1. card \in Seq(Frame) /\ Len(card) \in Nat
  BY ZftAssumption
<1>2. ASSUME NEW k \in 1 .. Len(card)
      PROVE  /\ card[k] \in Frame
             /\ card[k].n \in Nat /\ card[k].at \in Nat /\ card[k].gone \in Nat
             /\ card[k].kind \in Kinds
             /\ Silent(card[k]) \in Nat
  <2>1. card[k] \in Frame
    BY <1>1
  <2> QED BY <2>1 DEF Frame, Silent
<1>3. ASSUME NEW k \in 1 .. Len(card)
      PROVE  /\ card[k].kind = "sample" => card[k].n = 1
             /\ card[k].kind \in {"stamp", "volt", "temp", "end"} => card[k].n = 0
             /\ card[k].at = At(k) /\ card[k].gone = Gone(k)
  BY ZftAssumption DEF At, Gone
<1>4. ASSUME NEW k \in 1 .. Len(card)
      PROVE  /\ At(k + 1) = card[k].at + card[k].n
             /\ Gone(k + 1) = card[k].gone + Silent(card[k])
  <2>1. k + 1 # 1 /\ (k + 1) - 1 = k
    OBVIOUS
  <2> QED BY <2>1 DEF At, Gone
<1> QED BY <1>1, <1>2, <1>3, <1>4

\* The latest frame of a kind, one frame on.
LEMMA LatestStep ==
  ASSUME NEW kind, NEW k \in Nat \ {0}
  PROVE  Latest(kind, k + 1) = IF card[k].kind = kind THEN k ELSE Latest(kind, k)
<1> DEFINE before == {j \in 1 .. k - 1 : card[j].kind = kind}
           upto   == {j \in 1 .. (k + 1) - 1 : card[j].kind = kind}
<1>1. CASE card[k].kind = kind
  <2>1. k \in upto /\ \A i \in upto : i <= k
    BY <1>1
  <2>2. \A j \in upto : (\A i \in upto : i <= j) => j = k
    BY <2>1
  <2>3. (CHOOSE j \in upto : \A i \in upto : i <= j) = k
    <3> HIDE DEF upto
    <3> QED BY <2>1, <2>2
  <2> QED BY <1>1, <2>1, <2>3 DEF Latest
<1>2. CASE card[k].kind # kind
  <2>1. upto = before
    BY <1>2
  <2> DEFINE last(S) == IF S = {} THEN 0 ELSE CHOOSE j \in S : \A i \in S : i <= j
  <2>2. Latest(kind, k + 1) = last(upto)
    BY DEF Latest
  <2>3. Latest(kind, k) = last(before)
    BY DEF Latest
  <2> HIDE DEF upto, before, last
  <2>4. Latest(kind, k + 1) = Latest(kind, k)
    BY <2>1, <2>2, <2>3
  <2> QED BY <1>2, <2>4
<1> QED BY <1>1, <1>2

LEMMA LatestFirst == ASSUME NEW kind PROVE Latest(kind, 1) = 0
<1>1. {j \in 1 .. 1 - 1 : card[j].kind = kind} = {}
  OBVIOUS
<1> QED BY <1>1 DEF Latest

\* The card does not change, nor does what it says of a line.
LEMMA RowKept ==
  ASSUME card' = card, NEW r, RowTrue(r)
  PROVE  RowTrue(r)'
<1>1. Latest("volt", r.temp)' = Latest("volt", r.temp)
  BY DEF Latest
<1>2. Latest("stamp", r.temp)' = Latest("stamp", r.temp)
  BY DEF Latest
<1>3. IsFirstStamp(r.time) => IsFirstStamp(r.time)'
  BY DEF IsFirstStamp
<1> QED BY <1>1, <1>2, <1>3 DEF RowTrue

LEMMA RowsKept ==
  ASSUME RowsTrue, card' = card, NEW i \in 1 .. Len(rows), rows'[i] = rows[i]
  PROVE  RowTrue(rows[i])'
<1>1. PICK r : r = rows[i]
  OBVIOUS
<1>2. RowTrue(r)
  BY <1>1 DEF RowsTrue, RowTrue
<1>3. RowTrue(r)'
  BY <1>2, RowKept
<1> QED BY <1>1, <1>3 DEF RowTrue

-----------------------------------------------------------------------------
LEMMA InitIInv == Init => IInv
<1> SUFFICES ASSUME Init PROVE IInv
  OBVIOUS
<1>1. /\ card \in Cards /\ status = "scan" /\ next = 1 /\ fill = 0 /\ start = 0
      /\ t = 0 /\ volt = 0 /\ zft = [count |-> 0, written |-> FALSE]
      /\ file = [headers |-> << >>, frames |-> << >>] /\ rows = << >>
  BY DEF Init
<1>2. card \in Seq(Frame) /\ Len(card) \in Nat /\ NChannels \in 1 .. 8
  BY <1>1, CardFacts, ZftAssumption
<1>3. TypeOK
  <2>1. file \in [headers : Seq(HeaderSet), frames : Seq(EntrySet)]
    BY <1>1
  <2>2. rows \in Seq([temp : 1 .. Len(card), time : 1 .. Len(card), volt : 0 .. Len(card)])
    BY <1>1
  <2>3. zft \in [count : 0 .. NChannels, written : BOOLEAN]
    BY <1>1, <1>2
  <2> QED BY <1>1, <1>2, <2>1, <2>2, <2>3 DEF TypeOK, Init, HeaderSet, EntrySet
<1>4. Headed /\ Layout
  BY <1>1 DEF Headed, Layout
<1>5. Scanning /\ Started /\ Early /\ Placed
  BY <1>1 DEF Scanning, Started, Early, Placed
<1>6. InPlace /\ AllIn /\ CopiedDone /\ Joined /\ RowsTrue
  BY <1>1 DEF InPlace, AllIn, CopiedDone, Joined, RowsTrue
<1> QED BY <1>1, <1>3, <1>4, <1>5, <1>6 DEF IInv

LEMMA ScanStep == IInv /\ Scan => IInv'
<1> SUFFICES ASSUME IInv, Scan PROVE IInv'
  OBVIOUS
<1>1. /\ status = "scan" /\ next \in 1 .. Len(card) /\ next' = next + 1
      /\ UNCHANGED << card, skewed, fill, volt, zft, file, rows >>
      /\ Len(card) \in Nat /\ card \in Cards
  BY CardFacts DEF IInv, TypeOK, Scan, files
<1>2. IF card[next].kind = "stamp"
      THEN t' = next /\ start' = next /\ status' = "create"
      ELSE UNCHANGED << t, start, status >>
  BY DEF Scan
<1>3. start = 0 /\ t = 0 /\ \A j \in 1 .. next - 1 : card[j].kind # "stamp"
  BY <1>1 DEF IInv, Scanning, Early
<1>4. TypeOK'
  <2>1. fill = 0
    BY <1>1 DEF IInv, Early
  <2>2. /\ t' \in 0 .. Len(card) /\ start' \in 0 .. Len(card)
        /\ status' \in {"scan", "create"} /\ next' \in 1 .. Len(card) + 1
    BY <1>1, <1>2, <1>3
  <2> QED BY <1>1, <2>1, <2>2 DEF IInv, TypeOK
<1>5. Scanning' /\ Started'
  BY <1>1, <1>2, <1>3 DEF Scanning, Started, IsFirstStamp
<1>6. Early' /\ Headed' /\ Layout' /\ Placed'
  BY <1>1, <1>2, <1>3 DEF IInv, Early, Headed, Layout, Placed
<1>7. InPlace' /\ AllIn' /\ CopiedDone' /\ Joined' /\ RowsTrue'
  BY <1>1, <1>2 DEF IInv, Early, InPlace, AllIn, CopiedDone, Joined, RowsTrue
<1> QED BY <1>1, <1>4, <1>5, <1>6, <1>7 DEF IInv

LEMMA CreateStep == IInv /\ Create => IInv'
<1> SUFFICES ASSUME IInv, Create PROVE IInv'
  OBVIOUS
<1>1. /\ status = "create" /\ status' = "headers"
      /\ UNCHANGED << card, skewed, next, fill, start, t, volt, zft, file, rows >>
  BY DEF Create, files
<1>2. TypeOK' /\ Scanning' /\ Started' /\ Early' /\ Headed' /\ Layout' /\ Placed'
  BY <1>1 DEF IInv, TypeOK, Scanning, Started, IsFirstStamp, Early, Headed, Layout, Placed
<1>3. InPlace' /\ AllIn' /\ CopiedDone' /\ Joined' /\ RowsTrue'
  BY <1>1 DEF IInv, Early, InPlace, AllIn, CopiedDone, Joined, RowsTrue
<1> QED BY <1>1, <1>2, <1>3 DEF IInv

\* A run that fails keeps what it has written.
LEMMA FailsStep == IInv /\ Fails => IInv'
<1> SUFFICES ASSUME IInv, Fails PROVE IInv'
  OBVIOUS
<1>1. /\ status' = "aborted"
      /\ UNCHANGED << card, skewed, next, fill, start, t, volt, zft, file, rows >>
  BY DEF Fails, files
<1>2. TypeOK' /\ Scanning' /\ Started' /\ Early' /\ Headed' /\ Layout' /\ Placed'
  BY <1>1 DEF IInv, TypeOK, Scanning, Started, IsFirstStamp, Early, Headed, Layout, Placed
<1>3. InPlace' /\ AllIn' /\ CopiedDone' /\ Joined'
  BY <1>1 DEF InPlace, AllIn, CopiedDone, Joined
<1>4. RowsTrue'
  <2>1. \A i \in 1 .. Len(rows) : RowTrue(rows[i])'
    BY <1>1, RowsKept DEF IInv
  <2> QED BY <1>1, <2>1 DEF RowsTrue, RowTrue
<1> QED BY <1>1, <1>2, <1>3, <1>4 DEF IInv

LEMMA AddChannelStep == IInv /\ AddChannel => IInv'
<1> SUFFICES ASSUME IInv, AddChannel PROVE IInv'
  OBVIOUS
<1> DEFINE h == [start |-> start, number |-> zft.count + 1, count |-> NChannels,
                 skew |-> Options(zft.count + 1).skew = "fixnum"]
<1>1. /\ status = "headers" /\ zft.count < NChannels /\ zft.written = FALSE
      /\ zft' = [zft EXCEPT !.count = @ + 1]
      /\ UNCHANGED << card, skewed, next, fill, start, t, volt, rows >>
  BY DEF IInv, TypeOK, AddChannel
<1>2. /\ zft \in [count : 0 .. NChannels, written : BOOLEAN] /\ NChannels \in 1 .. 8
      /\ file \in [headers : Seq(HeaderSet), frames : Seq(EntrySet)]
      /\ start \in 1 .. Len(card) /\ Len(card) \in Nat
      /\ Len(file.headers) = zft.count
  BY <1>1, ZftAssumption, CardFacts
     DEF IInv, TypeOK, Started, Headed, HeaderSet, EntrySet
<1>3. /\ zft' \in [count : 0 .. NChannels, written : BOOLEAN]
      /\ zft'.count = zft.count + 1 /\ zft'.written = FALSE
  BY <1>1, <1>2
<1>4. h \in HeaderSet
  BY <1>1, <1>2 DEF HeaderSet
<1>5. /\ file' \in [headers : Seq(HeaderSet), frames : Seq(EntrySet)]
      /\ file'.frames = file.frames
      /\ \/ /\ file'.headers = Append(file.headers, h) /\ status' = "headers"
         \/ file' = file /\ status' = "aborted"
  <2>1. \/ /\ file' = [file EXCEPT !.headers = Append(@, h)] /\ status' = "headers"
        \/ file' = file /\ status' = "aborted"
    BY <1>1, <1>3 DEF AddChannel, Header, Options
  <2> HIDE DEF h
  <2>2. CASE file' = [file EXCEPT !.headers = Append(@, h)] /\ status' = "headers"
    <3>1. Append(file.headers, h) \in Seq(HeaderSet)
      BY <1>2, <1>4
    <3> QED BY <1>2, <2>2, <3>1
  <2>3. CASE file' = file /\ status' = "aborted"
    BY <1>2, <2>3
  <2> QED BY <2>1, <2>2, <2>3
<1>6. /\ h.start = start /\ h.number = zft.count + 1
  OBVIOUS
<1> HIDE DEF h
<1>7. /\ \A c \in 1 .. Len(file'.headers) :
             file'.headers[c].start = start /\ file'.headers[c].number = c
      /\ status' = "headers" => Len(file'.headers) = zft'.count
  <2>1. CASE file'.headers = Append(file.headers, h)
    BY <1>2, <1>3, <1>4, <1>6, <2>1 DEF IInv, Headed, Layout
  <2>2. CASE file' = file /\ status' = "aborted"
    BY <2>2 DEF IInv, Headed, Layout
  <2> QED BY <1>5, <2>1, <2>2
<1>8. file.frames = << >> /\ rows = << >> /\ fill = 0 /\ volt = 0 /\ t = start
  BY <1>1 DEF IInv, Early
<1>9. TypeOK'
  BY <1>1, <1>3, <1>5 DEF IInv, TypeOK, HeaderSet, EntrySet
<1>10. Scanning' /\ Started' /\ Early' /\ Headed' /\ Layout' /\ Placed'
  <2>1. Headed' /\ Layout'
    BY <1>1, <1>3, <1>5, <1>7, <1>8 DEF Headed, Layout
  <2>2. Scanning' /\ Started'
    BY <1>1, <1>5 DEF IInv, Scanning, Started, IsFirstStamp
  <2>3. Early' /\ Placed'
    BY <1>1, <1>5, <1>8 DEF Early, Placed
  <2> QED BY <2>1, <2>2, <2>3
<1>11. InPlace' /\ AllIn' /\ CopiedDone' /\ Joined' /\ RowsTrue'
  BY <1>1, <1>5, <1>8 DEF InPlace, AllIn, CopiedDone, Joined, RowsTrue
<1> QED BY <1>1, <1>9, <1>10, <1>11 DEF IInv

LEMMA EachFrameStep == IInv /\ EachFrame => IInv'
<1> SUFFICES ASSUME IInv, EachFrame PROVE IInv'
  OBVIOUS
<1>1. /\ status = "headers" /\ status' = "frames" /\ zft.count = NChannels /\ next' = 1
      /\ UNCHANGED << card, skewed, fill, start, t, volt, zft, file, rows >>
      /\ Len(card) \in Nat
  BY CardFacts DEF IInv, EachFrame, files
<1>2. file.frames = << >> /\ rows = << >> /\ fill = 0 /\ volt = 0 /\ t = start
  BY <1>1 DEF IInv, Early
<1>3. TypeOK'
  BY <1>1, <1>2 DEF IInv, TypeOK
<1>4. Scanning' /\ Started' /\ Early' /\ Headed' /\ Layout' /\ Placed'
  BY <1>1, <1>2 DEF IInv, Scanning, Started, IsFirstStamp, Early, Headed, Layout, Placed
<1>5. InPlace' /\ AllIn' /\ CopiedDone'
  BY <1>1, <1>2 DEF InPlace, At, Gone, Done, AllIn, CopiedDone
<1>6. Joined'
  <2>1. Latest("volt", next)' = Latest("volt", 1) /\ Latest("stamp", next)' = Latest("stamp", 1)
    BY <1>1 DEF Latest
  <2> QED BY <1>1, <1>2, <2>1, LatestFirst DEF Joined
<1>7. RowsTrue'
  BY <1>1, <1>2 DEF RowsTrue
<1> QED BY <1>1, <1>3, <1>4, <1>5, <1>6, <1>7 DEF IInv

\* What holds while frames are copied, but for the voltage and the time stamp.
Copying ==
    /\ Scanning /\ Started /\ Early /\ Headed /\ Layout
    /\ Placed /\ InPlace /\ AllIn /\ CopiedDone

\* A frame that is not copied.
LEMMA QuietStep ==
  ASSUME IInv, status = "frames", fill = 0, next \in 1 .. Len(card),
         card[next].kind \in {"stamp", "volt", "temp", "gap", "lost"},
         card[next].kind = "lost" => card[next].n = 0,
         next' = next + 1, fill' = 0,
         UNCHANGED << card, status, start, zft, file >>
  PROVE  Copying'
<1>1. Scanning' /\ Started' /\ Early' /\ Headed' /\ Layout' /\ Placed'
  BY DEF IInv, Scanning, Started, IsFirstStamp, Early, Headed, Layout, Placed
<1>2. InPlace'
  <2>1. /\ At(next + 1) = At(next) + card[next].n
        /\ Gone(next + 1) = Gone(next) + Silent(card[next])
        /\ card[next].n \in Nat /\ Silent(card[next]) \in Nat
        /\ At(next) \in Nat /\ Gone(next) \in Nat /\ Len(file.frames) \in Nat
    <3>1. file \in [headers : Seq(HeaderSet), frames : Seq(EntrySet)]
      BY DEF IInv, TypeOK, HeaderSet, EntrySet
    <3>2. Len(file.frames) \in Nat
      BY <3>1
    <3>3. card \in Cards
      BY DEF IInv
    <3> QED BY <3>2, <3>3, CardFacts
  <2>2. card[next].n = Silent(card[next])
    BY CardFacts DEF IInv, Silent
  <2>3. Len(file.frames) + Gone(next) = At(next)
    BY <2>1 DEF IInv, InPlace, Done
  <2>4. Len(file.frames) + Gone(next + 1) = At(next + 1)
    BY <2>1, <2>2, <2>3
  <2>5. At(next)' = At(next + 1) /\ Gone(next)' = Gone(next + 1) /\ Done' = 0
    BY DEF At, Gone, Done
  <2> QED BY <2>1, <2>4, <2>5 DEF InPlace
<1>3. CopiedDone'
  BY DEF CopiedDone, Done
<1>4. AllIn'
  <2>1. ASSUME NEW k \in 1 .. next' - 1
        PROVE  /\ card[k].kind # "end"
               /\ card[k].kind \in {"sample", "lost"} =>
                     \A i \in 0 .. card[k].n - 1 :
                        \E j \in 1 .. Len(file.frames) : file.frames[j] =
                            [from |-> k, nth |-> i, lost |-> card[k].kind = "lost"]
    <3>1. CASE k \in 1 .. next - 1
      BY <3>1 DEF IInv, AllIn
    <3>2. CASE k = next
      BY <3>2
    <3> QED BY <3>1, <3>2
  <2> QED BY <2>1 DEF AllIn
<1> QED BY <1>1, <1>2, <1>3, <1>4 DEF Copying

\* A frame, or one turn of a lost one, that is copied.
LEMMA PushStep ==
  ASSUME IInv, status = "frames", next \in 1 .. Len(card),
         card[next].kind \in {"sample", "lost"},
         Push(NChannels, Done), Done \in 0 .. card[next].n - 1,
         IF Done + 1 = card[next].n THEN next' = next + 1 /\ fill' = 0
         ELSE next' = next /\ fill' = card[next].n - Done - 1,
         UNCHANGED << card, skewed, status, start, t, volt, rows >>
  PROVE  TypeOK' /\ Copying'
<1> DEFINE d == Done
           n == card[next].n
           e == Entry(next, d)
<1>1. /\ n \in Nat /\ d \in 0 .. n - 1 /\ Len(card) \in Nat
      /\ card[next].at = At(next) /\ card[next].gone = Gone(next)
      /\ card[next].at \in Nat /\ card[next].gone \in Nat
      /\ At(next + 1) = At(next) + n /\ Gone(next + 1) = Gone(next)
  BY CardFacts DEF IInv, Silent
<1>2. /\ file \in [headers : Seq(HeaderSet), frames : Seq(EntrySet)]
      /\ zft \in [count : 0 .. NChannels, written : BOOLEAN]
  BY DEF IInv, TypeOK, HeaderSet, EntrySet
<1>3. e \in EntrySet /\ e.from = next /\ e.nth = d
  BY <1>1 DEF EntrySet, Entry
<1>4. /\ zft' = [zft EXCEPT !.written = TRUE] /\ zft.count = NChannels
      /\ file' = [file EXCEPT !.frames = Append(@, e)]
  BY DEF Push, Entry
<1>5. /\ zft' \in [count : 0 .. NChannels, written : BOOLEAN] /\ zft'.count = zft.count
  BY <1>2, <1>4
<1> HIDE DEF e
<1>6. /\ file' \in [headers : Seq(HeaderSet), frames : Seq(EntrySet)]
      /\ file'.headers = file.headers
      /\ file'.frames = Append(file.frames, e)
  <2>1. Append(file.frames, e) \in Seq(EntrySet)
    BY <1>2, <1>3
  <2> QED BY <1>2, <1>4, <2>1
<1>7. /\ Len(file'.frames) = Len(file.frames) + 1 /\ Len(file.frames) \in Nat
      /\ \A j \in 1 .. Len(file.frames) : file'.frames[j] = file.frames[j]
      /\ file'.frames[Len(file.frames) + 1] = e
  BY <1>2, <1>3, <1>6
<1>8. IF d + 1 = n THEN next' = next + 1 /\ fill' = 0
      ELSE next' = next /\ fill' = n - d - 1 /\ fill' > 0
  BY <1>1
<1>9. Done' = IF d + 1 = n THEN 0 ELSE d + 1
  <2>1. CASE d + 1 = n
    BY <1>8, <2>1 DEF Done
  <2>2. CASE d + 1 # n
    <3>1. Done' = card[next].n - fill'
      BY <1>8, <2>2 DEF Done
    <3>2. card[next].n - fill' = d + 1
      BY <1>1, <1>8, <2>2
    <3> QED BY <2>2, <3>1, <3>2
  <2> QED BY <2>1, <2>2
<1>10. Len(file.frames) + Gone(next) = At(next) + d
  BY DEF IInv, InPlace
<1> HIDE DEF d, n
<1>11. TypeOK'
  <2>1. next' \in 1 .. Len(card) + 1 /\ fill' \in Nat
    BY <1>1, <1>8
  <2>2. fill' > 0 => next' <= Len(card) /\ card[next'].kind = "lost" /\ fill' <= card[next'].n
    <3>1. SUFFICES ASSUME fill' > 0
                   PROVE next' <= Len(card) /\ card[next'].kind = "lost"
                         /\ fill' <= card[next'].n
      OBVIOUS
    <3>2. next' = next /\ fill' = n - d - 1 /\ d + 1 # n
      BY <1>8, <3>1
    <3>3. card[next].kind = "lost"
      <4>1. card[next].kind = "sample" => n = 1
        BY CardFacts DEF IInv, n
      <4> QED BY <1>1, <3>2, <4>1
    <3>4. fill' <= n
      BY <1>1, <3>2
    <3> QED BY <3>2, <3>3, <3>4 DEF n
  <2>3. /\ skewed' \in BOOLEAN /\ status' = "frames" /\ start' \in 0 .. Len(card)
        /\ t' \in 0 .. Len(card) /\ volt' \in 0 .. Len(card) /\ card' \in Seq(Frame)
        /\ rows' \in Seq([temp : 1 .. Len(card), time : 1 .. Len(card),
                           volt : 0 .. Len(card)])
    BY DEF IInv, TypeOK
  <2> QED BY <1>5, <1>6, <2>1, <2>2, <2>3 DEF TypeOK, HeaderSet, EntrySet
<1>12. Scanning' /\ Started' /\ Early' /\ Headed' /\ Layout'
  BY <1>4, <1>5, <1>6 DEF IInv, Scanning, Started, IsFirstStamp, Early, Headed, Layout
<1>13. Placed'
  <2> SUFFICES ASSUME NEW i \in 1 .. Len(file'.frames)
               PROVE  i - 1 + card[file'.frames[i].from].gone
                         = card[file'.frames[i].from].at + file'.frames[i].nth
    BY DEF Placed
  <2>1. CASE i \in 1 .. Len(file.frames)
    BY <1>7, <2>1 DEF IInv, Placed
  <2>2. CASE i = Len(file.frames) + 1
    <3>1. file'.frames[i].from = next /\ file'.frames[i].nth = d
      BY <1>3, <1>7, <2>2 DEF d
    <3>2. i - 1 + card[next].gone = card[next].at + d
      BY <1>1, <1>7, <1>10, <2>2
    <3> QED BY <3>1, <3>2
  <2> QED BY <1>7, <2>1, <2>2
<1>14. InPlace'
  <2>1. At(next)' = At(next') /\ Gone(next)' = Gone(next')
    BY DEF At, Gone
  <2>2. CASE d + 1 = n
    <3>1. Len(file.frames) + 1 + Gone(next + 1) = At(next + 1) + 0
      BY <1>1, <1>7, <1>10, <2>2
    <3> QED BY <1>7, <1>8, <1>9, <2>1, <2>2, <3>1 DEF InPlace
  <2>3. CASE d + 1 # n
    <3>1. Len(file.frames) + 1 + Gone(next) = At(next) + (d + 1)
      BY <1>1, <1>7, <1>10
    <3> QED BY <1>7, <1>8, <1>9, <2>1, <2>3, <3>1 DEF InPlace
  <2> QED BY <2>2, <2>3
\* What was copied still is, and now this.
<1>15. \A x : InFile(x) \/ x = e => InFile(x)'
  <2> SUFFICES ASSUME NEW x, InFile(x) \/ x = e PROVE InFile(x)'
    OBVIOUS
  <2>1. CASE InFile(x)
    <3>1. PICK j \in 1 .. Len(file.frames) : file.frames[j] = x
      BY <2>1 DEF InFile
    <3>2. j \in 1 .. Len(file'.frames) /\ file'.frames[j] = x
      BY <1>7, <3>1
    <3> QED BY <3>2 DEF InFile
  <2>2. CASE x = e
    <3>1. Len(file.frames) + 1 \in 1 .. Len(file'.frames)
      BY <1>7
    <3> QED BY <1>7, <2>2, <3>1 DEF InFile
  <2> QED BY <2>1, <2>2
<1>16. \A i \in 0 .. d : InFile(Entry(next, i)) \/ Entry(next, i) = e
  <2>1. \A i \in 0 .. d - 1 : InFile(Entry(next, i))
    BY DEF IInv, CopiedDone, d
  <2>2. Entry(next, d) = e
    BY DEF e
  <2> QED BY <1>1, <2>1, <2>2
<1>17. CopiedDone'
  <2>1. CASE d + 1 = n
    BY <1>9, <2>1 DEF CopiedDone
  <2>2. CASE d + 1 # n
    <3>1. next' = next /\ Done' = d + 1
      BY <1>8, <1>9, <2>2
    <3>2. \A i \in 0 .. d : InFile(Entry(next, i))'
      <4> SUFFICES ASSUME NEW i \in 0 .. d PROVE InFile(Entry(next, i))'
        OBVIOUS
      <4>1. PICK x : x = Entry(next, i)
        OBVIOUS
      <4>2. InFile(x)'
        BY <1>15, <1>16, <4>1
      <4> QED BY <3>1, <4>1, <4>2 DEF InFile, Entry
    <3> QED BY <1>1, <3>1, <3>2 DEF CopiedDone
  <2> QED BY <2>1, <2>2
<1>18. AllIn'
  <2>1. ASSUME NEW k \in 1 .. next' - 1
        PROVE  /\ card[k].kind # "end"
               /\ card[k].kind \in {"sample", "lost"} =>
                     \A i \in 0 .. card[k].n - 1 :
                        \E j \in 1 .. Len(file'.frames) : file'.frames[j] = Entry(k, i)
    <3>1. CASE k \in 1 .. next - 1
      <4>1. /\ card[k].kind # "end"
            /\ card[k].kind \in {"sample", "lost"} =>
                  \A i \in 0 .. card[k].n - 1 : InFile(Entry(k, i))
        BY <3>1 DEF IInv, AllIn, InFile, Entry
      <4>2. \A x : InFile(x) => \E j \in 1 .. Len(file'.frames) : file'.frames[j] = x
        BY <1>15 DEF InFile
      <4> QED BY <4>1, <4>2
    <3>2. CASE k \notin 1 .. next - 1
      <4>1. k = next /\ d + 1 = n
        BY <1>1, <1>8, <3>2
      <4>2. \A x : InFile(x) \/ x = e =>
                \E j \in 1 .. Len(file'.frames) : file'.frames[j] = x
        BY <1>15 DEF InFile
      <4>3. \A i \in 0 .. n - 1 : i \in 0 .. d
        BY <1>1, <4>1
      <4> QED BY <1>16, <4>1, <4>2, <4>3 DEF n
    <3> QED BY <3>1, <3>2
  <2> QED BY <2>1 DEF AllIn, Entry
<1> QED BY <1>11, <1>12, <1>13, <1>14, <1>17, <1>18 DEF Copying

\* Voltage and time stamp are joined right again when next has moved on.
LEMMA JoinedStep ==
  ASSUME IInv, status = "frames", next \in Nat \ {0},
         UNCHANGED << card, status, start >>,
         \/ /\ next' = next + 1
            /\ volt' = IF card[next].kind = "volt" THEN next ELSE volt
            /\ t' = IF card[next].kind = "stamp" THEN next ELSE t
         \/ UNCHANGED << next, volt, t >>
  PROVE  Joined'
<1>1. \A kind : Latest(kind, next + 1)
                  = IF card[next].kind = kind THEN next ELSE Latest(kind, next)
  BY LatestStep
<1>2. /\ volt = Latest("volt", next)
      /\ t = IF Latest("stamp", next) = 0 THEN start ELSE Latest("stamp", next)
  BY DEF IInv, Joined
<1>3. CASE next' = next + 1 /\ (volt' = IF card[next].kind = "volt" THEN next ELSE volt)
           /\ (t' = IF card[next].kind = "stamp" THEN next ELSE t)
  <2>1. Latest("volt", next)' = Latest("volt", next + 1)
    BY <1>3 DEF Latest
  <2>2. Latest("stamp", next)' = Latest("stamp", next + 1)
    BY <1>3 DEF Latest
  <2>3. volt' = Latest("volt", next + 1)
    BY <1>1, <1>2, <1>3
  <2>4. t' = IF Latest("stamp", next + 1) = 0 THEN start ELSE Latest("stamp", next + 1)
    <3>1. CASE card[next].kind = "stamp"
      <4>1. Latest("stamp", next + 1) = next
        BY <1>1, <3>1
      <4> QED BY <1>3, <3>1, <4>1
    <3>2. CASE card[next].kind # "stamp"
      <4>1. Latest("stamp", next + 1) = Latest("stamp", next)
        BY <1>1, <3>2
      <4> QED BY <1>2, <1>3, <3>2, <4>1
    <3> QED BY <3>1, <3>2
  <2> QED BY <2>1, <2>2, <2>3, <2>4 DEF Joined
<1>4. CASE UNCHANGED << next, volt, t >>
  <2>1. Latest("volt", next)' = Latest("volt", next)
    BY <1>4 DEF Latest
  <2>2. Latest("stamp", next)' = Latest("stamp", next)
    BY <1>4 DEF Latest
  <2> QED BY <1>2, <1>4, <2>1, <2>2 DEF Joined
<1> QED BY <1>3, <1>4

LEMMA CopySteps == IInv /\ (Sample \/ Fill) => IInv'
<1> SUFFICES ASSUME IInv, Sample \/ Fill PROVE IInv'
  OBVIOUS
<1>1. /\ status = "frames" /\ next \in 1 .. Len(card) /\ next \in Nat \ {0}
      /\ UNCHANGED << card, skewed, status, start, t, volt, rows >>
      /\ Push(NChannels, Done) /\ Done \in 0 .. card[next].n - 1
      /\ card[next].kind \in {"sample", "lost"}
      /\ IF Done + 1 = card[next].n THEN next' = next + 1 /\ fill' = 0
         ELSE next' = next /\ fill' = card[next].n - Done - 1
  <2>1. next \in 1 .. Len(card) + 1 /\ Len(card) \in Nat /\ fill \in Nat
    BY CardFacts DEF IInv, TypeOK
  <2>2. CASE Sample
    <3>1. next \in 1 .. Len(card) /\ fill = 0 /\ card[next].kind = "sample"
      BY <2>1, <2>2 DEF Sample, Reads
    <3>2. card[next].n = 1
      BY <3>1, CardFacts DEF IInv
    <3>3. Done = 0
      BY <3>1 DEF Done
    <3> QED BY <2>2, <3>1, <3>2, <3>3 DEF Sample, Reads
  <2>3. CASE Fill
    <3>1. /\ next \in 1 .. Len(card) /\ fill > 0 /\ card[next].kind = "lost"
          /\ fill <= card[next].n /\ card[next].n \in Nat
      BY <2>1, <2>3, CardFacts DEF Fill, IInv, TypeOK
    <3>2. Done = card[next].n - fill
      BY <3>1 DEF Done
    <3>3. Done \in 0 .. card[next].n - 1 /\ (fill = 1 <=> Done + 1 = card[next].n)
          /\ fill - 1 = card[next].n - Done - 1 /\ (fill = 1 => fill - 1 = 0)
      BY <2>1, <3>1, <3>2
    <3>4. /\ status = "frames" /\ Push(NChannels, Done)
          /\ UNCHANGED << card, skewed, status, start, t, volt, rows >>
          /\ fill' = fill - 1
          /\ next' = IF fill = 1 THEN next + 1 ELSE next
      BY <2>3, <3>2 DEF Fill
    <3>5. IF Done + 1 = card[next].n THEN next' = next + 1 /\ fill' = 0
          ELSE next' = next /\ fill' = card[next].n - Done - 1
      BY <3>3, <3>4
    <3> QED BY <2>1, <3>1, <3>3, <3>4, <3>5
  <2> QED BY <2>2, <2>3
<1>2. TypeOK' /\ Copying'
  BY <1>1, PushStep
<1>3. Joined'
  <2>1. card[next].kind # "volt" /\ card[next].kind # "stamp"
    BY <1>1
  <2> QED BY <1>1, <2>1, JoinedStep
<1>4. RowsTrue'
  <2>1. \A i \in 1 .. Len(rows) : RowTrue(rows[i])'
    BY <1>1, RowsKept DEF IInv
  <2> QED BY <1>1, <2>1 DEF RowsTrue, RowTrue
<1> QED BY <1>1, <1>2, <1>3, <1>4 DEF IInv, Copying

LEMMA QuietSteps ==
  IInv /\ (Timestamp \/ VoltageHumidity \/ OtherFrame \/ Temperature) => IInv'
<1> SUFFICES ASSUME IInv, Timestamp \/ VoltageHumidity \/ OtherFrame \/ Temperature
             PROVE  IInv'
  OBVIOUS
<1>1. /\ status = "frames" /\ fill = 0 /\ next \in 1 .. Len(card) /\ next' = next + 1
      /\ UNCHANGED << card, skewed, status, fill, start, zft, file >>
      /\ card[next].kind \in {"stamp", "volt", "gap", "temp"}
      /\ next \in Nat \ {0} /\ Len(card) \in Nat
  BY CardFacts
     DEF IInv, TypeOK, Timestamp, VoltageHumidity, OtherFrame, Temperature, Reads, files
<1>2. /\ volt' = IF card[next].kind = "volt" THEN next ELSE volt
      /\ t' = IF card[next].kind = "stamp" THEN next ELSE t
  BY DEF Timestamp, VoltageHumidity, OtherFrame, Temperature, Reads, files
<1>3. Copying'
  BY <1>1, QuietStep
<1>4. Joined'
  BY <1>1, <1>2, JoinedStep
<1>5. t \in 1 .. Len(card) /\ volt \in 0 .. Len(card) /\ IsFirstStamp(start)
  <2>1. start \in 1 .. Len(card) /\ volt \in 0 .. Len(card) /\ t \in 0 .. Len(card)
        /\ IsFirstStamp(start)
    BY <1>1 DEF IInv, TypeOK, Started
  <2>2. t = IF Latest("stamp", next) = 0 THEN start ELSE Latest("stamp", next)
    BY <1>1 DEF IInv, Joined
  <2>3. t # 0
    BY <2>1, <2>2
  <2> QED BY <1>1, <2>1, <2>3
<1>6. CASE Temperature
  <2> DEFINE R == [temp : 1 .. Len(card), time : 1 .. Len(card), volt : 0 .. Len(card)]
  <2>1. PICK r : r = [temp |-> next, time |-> t, volt |-> volt]
    OBVIOUS
  <2>2. rows' = Append(rows, r) /\ rows \in Seq(R)
    BY <1>6, <2>1 DEF Temperature, IInv, TypeOK
  <2>3. r \in R /\ r.temp = next /\ r.time = t /\ r.volt = volt
    BY <1>1, <1>5, <2>1
  <2>4. RowTrue(r)
    BY <1>1, <1>5, <2>3 DEF RowTrue, IInv, Joined
  <2>5. RowTrue(r)'
    BY <1>1, <2>4, RowKept
  <2> HIDE DEF R
  <2>6. /\ rows' \in Seq(R) /\ Len(rows') = Len(rows) + 1 /\ Len(rows) \in Nat
        /\ rows'[Len(rows) + 1] = r
        /\ \A i \in 1 .. Len(rows) : rows'[i] = rows[i]
    BY <2>2, <2>3
  <2>7. TypeOK'
    <3>1. /\ next' \in 1 .. Len(card) + 1 /\ fill' = 0
          /\ card' \in Seq(Frame) /\ skewed' \in BOOLEAN /\ status' = "frames"
          /\ start' \in 0 .. Len(card) /\ t' \in 0 .. Len(card) /\ volt' \in 0 .. Len(card)
          /\ zft' \in [count : 0 .. NChannels, written : BOOLEAN]
          /\ file' \in [headers : Seq(HeaderSet), frames : Seq(EntrySet)]
      BY <1>1, <1>6 DEF IInv, TypeOK, Temperature, HeaderSet, EntrySet
    <3> QED BY <1>1, <2>6, <3>1 DEF TypeOK, R, HeaderSet, EntrySet
  <2>8. RowsTrue'
    <3> SUFFICES ASSUME NEW i \in 1 .. Len(rows') PROVE RowTrue(rows[i])'
      BY DEF RowsTrue, RowTrue
    <3>1. CASE i \in 1 .. Len(rows)
      BY <1>1, <2>6, <3>1, RowsKept DEF IInv
    <3>2. CASE i = Len(rows) + 1
      BY <2>5, <2>6, <3>2 DEF RowTrue
    <3> QED BY <2>6, <3>1, <3>2
  <2> QED BY <1>1, <1>3, <1>4, <2>7, <2>8 DEF IInv, Copying
<1>7. CASE Timestamp \/ VoltageHumidity \/ OtherFrame
  <2>1. rows' = rows
    BY <1>7 DEF Timestamp, VoltageHumidity, OtherFrame, files
  <2>2. TypeOK'
    <3>1. next' \in 1 .. Len(card) + 1 /\ t' \in 0 .. Len(card) /\ volt' \in 0 .. Len(card)
      BY <1>1, <1>2, <1>5
    <3> QED BY <1>1, <2>1, <3>1 DEF IInv, TypeOK
  <2>3. RowsTrue'
    <3>1. \A i \in 1 .. Len(rows) : RowTrue(rows[i])'
      BY <1>1, <2>1, RowsKept DEF IInv
    <3> QED BY <2>1, <3>1 DEF RowsTrue, RowTrue
  <2> QED BY <1>1, <1>3, <1>4, <2>2, <2>3 DEF IInv, Copying
<1> QED BY <1>6, <1>7

LEMMA LostFramesStep == IInv /\ LostFrames => IInv'
<1> SUFFICES ASSUME IInv, LostFrames PROVE IInv'
  OBVIOUS
<1>1. /\ status = "frames" /\ fill = 0 /\ next \in 1 .. Len(card)
      /\ card[next].kind = "lost" /\ card[next].n \in Nat
      /\ fill' = card[next].n /\ next' = (IF card[next].n = 0 THEN next + 1 ELSE next)
      /\ UNCHANGED << card, skewed, status, start, t, volt, zft, file, rows >>
      /\ next \in Nat \ {0} /\ Len(card) \in Nat
  BY CardFacts DEF IInv, TypeOK, LostFrames, Reads, files
<1>2. TypeOK'
  <2>1. next' \in 1 .. Len(card) + 1
    BY <1>1
  <2>2. fill' > 0 => next' <= Len(card) /\ card[next'].kind = "lost" /\ fill' <= card[next'].n
    BY <1>1
  <2> QED BY <1>1, <2>1, <2>2 DEF IInv, TypeOK
<1>3. Copying'
  <2>1. CASE card[next].n = 0
    BY <1>1, <2>1, QuietStep
  <2>2. CASE card[next].n # 0
    <3>1. next' = next /\ fill' > 0 /\ fill' = card[next].n
      BY <1>1, <2>2
    <3>2. Done = 0 /\ Done' = 0
      BY <1>1, <3>1 DEF Done
    <3>3. Scanning' /\ Started' /\ Early' /\ Headed' /\ Layout' /\ Placed'
      BY <1>1, <3>1 DEF IInv, Scanning, Started, IsFirstStamp, Early, Headed, Layout, Placed
    <3>4. InPlace' /\ CopiedDone'
      BY <1>1, <3>1, <3>2 DEF IInv, InPlace, CopiedDone, At, Gone
    <3>5. AllIn'
      BY <1>1, <3>1 DEF IInv, AllIn
    <3> QED BY <3>3, <3>4, <3>5 DEF Copying
  <2> QED BY <2>1, <2>2
<1>4. Joined'
  <2>1. CASE card[next].n = 0
    <3>1. card[next].kind # "volt" /\ card[next].kind # "stamp"
      BY <1>1
    <3> QED BY <1>1, <2>1, <3>1, JoinedStep
  <2>2. CASE card[next].n # 0
    BY <1>1, <2>2, JoinedStep
  <2> QED BY <2>1, <2>2
<1>5. RowsTrue'
  <2>1. \A i \in 1 .. Len(rows) : RowTrue(rows[i])'
    BY <1>1, RowsKept DEF IInv
  <2> QED BY <1>1, <2>1 DEF RowsTrue, RowTrue
<1> QED BY <1>1, <1>2, <1>3, <1>4, <1>5 DEF IInv, Copying

LEMMA CloseStep == IInv /\ Close => IInv'
<1> SUFFICES ASSUME IInv, Close PROVE IInv'
  OBVIOUS
<1>1. /\ status = "frames" /\ status' = "closed"
      /\ next > Len(card) \/ card[next].kind = "end"
      /\ UNCHANGED << card, skewed, next, fill, start, t, volt, zft, file, rows >>
  BY DEF Close, Reads, files
<1>2. TypeOK' /\ Scanning' /\ Started' /\ Early' /\ Headed' /\ Layout' /\ Placed'
  BY <1>1 DEF IInv, TypeOK, Scanning, Started, IsFirstStamp, Early, Headed, Layout, Placed
<1>3. InPlace' /\ AllIn' /\ CopiedDone' /\ Joined'
  BY <1>1 DEF IInv, InPlace, AllIn, CopiedDone, Joined
<1>4. RowsTrue'
  <2>1. \A i \in 1 .. Len(rows) : RowTrue(rows[i])'
    BY <1>1, RowsKept DEF IInv
  <2> QED BY <1>1, <2>1 DEF RowsTrue, RowTrue
<1> QED BY <1>1, <1>2, <1>3, <1>4 DEF IInv

LEMMA StepIInv == IInv /\ [Next]_vars => IInv'
<1> SUFFICES ASSUME IInv, [Next]_vars PROVE IInv'
  OBVIOUS
<1>1. CASE Scan
  BY <1>1, ScanStep
<1>2. CASE Create
  BY <1>2, CreateStep
<1>3. CASE AddChannel
  BY <1>3, AddChannelStep
<1>4. CASE EachFrame
  BY <1>4, EachFrameStep
<1>5. CASE Sample \/ Fill
  BY <1>5, CopySteps
<1>6. CASE Timestamp \/ VoltageHumidity \/ OtherFrame \/ Temperature
  BY <1>6, QuietSteps
<1>7. CASE LostFrames
  BY <1>7, LostFramesStep
<1>8. CASE Close
  BY <1>8, CloseStep
<1>9. CASE Fails
  BY <1>9, FailsStep
<1>10. CASE Spin \/ UNCHANGED vars
  <2>1. UNCHANGED << card, skewed, status, next, fill, start, t, volt, zft, file, rows >>
    BY <1>10 DEF Spin, vars, files
  <2>2. TypeOK' /\ Scanning' /\ Started' /\ Early' /\ Headed' /\ Layout' /\ Placed'
    BY <2>1 DEF IInv, TypeOK, Scanning, Started, IsFirstStamp, Early, Headed, Layout, Placed
  <2>3. InPlace' /\ AllIn' /\ CopiedDone' /\ Joined'
    BY <2>1 DEF IInv, InPlace, At, Gone, Done, AllIn, CopiedDone, InFile, Entry,
                Joined, Latest
  <2>4. RowsTrue'
    <3>1. \A i \in 1 .. Len(rows) : RowTrue(rows[i])'
      BY <2>1, RowsKept DEF IInv
    <3> QED BY <2>1, <3>1 DEF RowsTrue, RowTrue
  <2> QED BY <2>1, <2>2, <2>3, <2>4 DEF IInv
<1> QED BY <1>1, <1>2, <1>3, <1>4, <1>5, <1>6, <1>7, <1>8, <1>9, <1>10 DEF Next, Work

LEMMA Invariant == Spec => []IInv
  BY InitIInv, StepIInv, PTL DEF Spec

\* The types; and a header is never counted that is not of a channel.
THEOREM TypeCorrect == Spec => []TypeOK
<1>1. IInv => TypeOK
  BY DEF IInv
<1> QED BY <1>1, Invariant, PTL

\* The place of a frame in the file gives its time, late by exactly the samples
\* from before the first Timestamp and early by those that went missing silently
\* behind it (makezft.rb 81-145).
THEOREM PlacesAreTimes == Spec => []PlacesTrue
<1>1. ASSUME IInv, NEW i \in 1 .. Len(file.frames), NEW c \in 1 .. Len(file.headers)
      PROVE  /\ IsFirstStamp(file.headers[c].start)
             /\ ReadAt(i, file.headers[c]) - TakenAt(file.frames[i])
                   = card[file.headers[c].start].at - card[file.headers[c].start].gone
                     - (card[file.frames[i].from].gone - card[file.headers[c].start].gone)
  <2>1. file.headers[c].start = start
    BY <1>1 DEF IInv, Headed
  <2>2. start \in 1 .. Len(card)
    <3>1. file \in [headers : Seq(HeaderSet), frames : Seq(EntrySet)]
      BY <1>1 DEF IInv, TypeOK, HeaderSet, EntrySet
    <3>2. file.headers[c] \in HeaderSet
      BY <3>1
    <3> QED BY <2>1, <3>2 DEF HeaderSet
  <2>3. file.frames[i].from \in 1 .. Len(card) /\ file.frames[i].nth \in Nat
    <3>1. file \in [headers : Seq(HeaderSet), frames : Seq(EntrySet)]
      BY <1>1 DEF IInv, TypeOK, HeaderSet, EntrySet
    <3>2. file.frames[i] \in EntrySet
      BY <3>1
    <3> QED BY <3>2 DEF EntrySet
  <2>4. \A k \in 1 .. Len(card) : card[k].at \in Nat /\ card[k].gone \in Nat
    <3>1. \A k \in 1 .. Len(card) : card[k] \in Frame
      BY <1>1 DEF IInv, TypeOK
    <3> QED BY <3>1 DEF Frame
  <2>5. i - 1 + card[file.frames[i].from].gone
            = card[file.frames[i].from].at + file.frames[i].nth
    BY <1>1 DEF IInv, Placed
  <2>6. PICK a \in Nat, g \in Nat, x \in Nat, y \in Nat, n \in Nat, j \in Nat :
            /\ a = card[start].at /\ g = card[start].gone
            /\ x = card[file.frames[i].from].at /\ y = card[file.frames[i].from].gone
            /\ n = file.frames[i].nth /\ j = i
    <3>1. i \in Nat
      OBVIOUS
    <3> QED BY <2>2, <2>3, <2>4, <3>1
  <2>7. j - 1 + y = x + n
    BY <2>5, <2>6
  <2>8. (a + j - 1) - (x + n) = a - g - (y - g)
    BY <2>7
  <2>9. IsFirstStamp(start)
    BY <1>1, <2>2 DEF IInv, Started
  <2> QED BY <2>1, <2>6, <2>8, <2>9 DEF ReadAt, TakenAt
<1>2. IInv => PlacesTrue
  BY <1>1 DEF PlacesTrue
<1> QED BY <1>2, Invariant, PTL

\* The headers of all channels come first, and nothing on the card is left out
\* of the file behind them.
THEOREM AllCopied == Spec => []Copied
<1>1. IInv => Copied
  BY DEF IInv, Copied
<1> QED BY <1>1, Invariant, PTL

\* The lines of engineering data join what was latest.
THEOREM TrueRows == Spec => []RowsTrue
<1>1. IInv => RowsTrue
  BY DEF IInv
<1> QED BY <1>1, Invariant, PTL
=============================================================================
