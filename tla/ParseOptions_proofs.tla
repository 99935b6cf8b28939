-------------------------- MODULE ParseOptions_proofs --------------------------
(***************************************************************************)
(* The types of ParseOptions, WordsKept, LastOneDecides and FirstExit, for *)
(* every list of options and every command line.                           *)
(***************************************************************************)
EXTENDS ParseOptions, FiniteSetTheorems, TLAPS

\* Where the loop stands: c and ended are what they should be before the word i,
\* the letters before j took nothing, and an option waits exactly if the word
\* before i left it.
Place ==
    /\ c = Slot(i)
    /\ ended <=> Behind(i)
    /\ status = "parsing" => argc = N + 1
    /\ j > 1 => /\ i <= N /\ option = None
                /\ j \in DOMAIN args[i].letters
                /\ ReadLetter(args[i], j)
    /\ option # None => /\ i > 1
                        /\ ~ended
                        /\ Waiting(args[i - 1]).parameter
    /\ (i > 1 /\ i <= N /\ option = None /\ ~ended /\ args[i].kind = "plain") =>
            ~Waiting(args[i - 1]).parameter

IInv == TypeOK /\ WordsKept /\ Place

\* A lookup finds an option of the table or none, and only the former waits.
LEMMA LookupFacts ==
  \A x : /\ LookupShort(x).known \in BOOLEAN /\ LookupShort(x).parameter \in BOOLEAN
         /\ LookupShort(x).parameter => LookupShort(x).known /\ LookupShort(x) # None
         /\ LookupLong(x).known \in BOOLEAN /\ LookupLong(x).parameter \in BOOLEAN
         /\ LookupLong(x).parameter => LookupLong(x).known /\ LookupLong(x) # None
<1> DEFINE Opts == [known : {TRUE}, shortopt : STRING, longopt : STRING,
                    parameter : BOOLEAN, callback : BOOLEAN, adr : DOMAIN Initial,
                    default : {None} \cup STRING, flag_value : STRING]
<1>1. Table \in Seq(Opts)
  BY OptionsAssumption
<1>2. \A o \in Opts : o.known = TRUE /\ o.parameter \in BOOLEAN
  OBVIOUS
<1> HIDE DEF Opts
<1>3. DOMAIN Table \subseteq Nat /\ \A k \in DOMAIN Table : Table[k] \in Opts
  BY <1>1
<1>4. ASSUME NEW P, P \subseteq DOMAIN Table
      PROVE  /\ First(P).known \in BOOLEAN /\ First(P).parameter \in BOOLEAN
             /\ First(P).parameter => First(P).known /\ First(P) # None
  <2> DEFINE first == {k \in P : \A l \in P : k <= l}
  <2>1. CASE first = {}
    BY <2>1 DEF First, Unknown
  <2>2. CASE first # {}
    <3>1. (CHOOSE k \in first : TRUE) \in first
      BY <2>2
    <3>2. First(P) \in Opts /\ First(P) # None
      BY <1>3, <1>4, <2>2, <3>1, OptionsAssumption DEF First
    <3> QED BY <1>2, <3>2
  <2> QED BY <2>1, <2>2
<1>5. TAKE x
<1>6. {k \in DOMAIN Table : Table[k].shortopt = x} \subseteq DOMAIN Table
  OBVIOUS
<1>7. {k \in DOMAIN Table : Table[k].longopt = x} \subseteq DOMAIN Table
  OBVIOUS
<1> QED BY <1>4, <1>6, <1>7 DEF LookupShort, LookupLong

LEMMA ArgsFacts ==
  ASSUME args \in Seq(Words)
  PROVE  /\ N \in Nat
         /\ DOMAIN args = 1 .. N
         /\ \A k \in 1 .. N : args[k] \in Words
BY DEF N

LEMMA SlotNext ==
  ASSUME args \in Seq(Words), NEW k \in Nat \ {0}
  PROVE  /\ Behind(k + 1) <=> Behind(k) \/ args[k].kind = "end"
         /\ Slot(k) \in 1 .. k
         /\ Positional(k) => Slot(k + 1) = Slot(k) + 1
         /\ ~Positional(k) => Slot(k + 1) = Slot(k)
<1> DEFINE P == {m \in 1 .. k - 1 : Positional(m)}
           Q == {m \in 1 .. (k + 1) - 1 : Positional(m)}
<1>1. Behind(k + 1) <=> Behind(k) \/ args[k].kind = "end"
  <2>1. 1 .. (k + 1) - 1 = (1 .. k - 1) \cup {k}
    OBVIOUS
  <2> QED BY <2>1, Zenon DEF Behind
<1>2. IsFiniteSet(1 .. k - 1) /\ Cardinality(1 .. k - 1) = k - 1
  BY FS_Interval
<1>3. IsFiniteSet(P) /\ Cardinality(P) \in Nat /\ Cardinality(P) <= k - 1
  <2>1. P \subseteq 1 .. k - 1
    OBVIOUS
  <2> QED BY <1>2, <2>1, FS_Subset, FS_CardinalityType
<1>4. Positional(k) => Q = P \cup {k} /\ k \notin P
  OBVIOUS
<1>5. ~Positional(k) => Q = P
  OBVIOUS
<1>6. Slot(k) = 1 + Cardinality(P) /\ Slot(k + 1) = 1 + Cardinality(Q)
  BY DEF Slot
<1> HIDE DEF P, Q
<1>7. k \notin P => Cardinality(P \cup {k}) = Cardinality(P) + 1
  BY <1>3, FS_AddElement
<1>8. Slot(k) \in 1 .. k
  BY <1>3, <1>6
<1>9. Positional(k) => Slot(k + 1) = Slot(k) + 1
  <2>1. Positional(k) => Cardinality(Q) = Cardinality(P) + 1
    BY <1>4, <1>7, Zenon
  <2> QED BY <1>3, <1>6, <2>1
<1>10. ~Positional(k) => Slot(k + 1) = Slot(k)
  BY <1>5, <1>6
<1> QED BY <1>1, <1>8, <1>9, <1>10

\* No two words go to the same place.
LEMMA SlotGrows ==
  ASSUME args \in Seq(Words), NEW k \in Nat \ {0}, NEW l \in Nat, k < l, Positional(k)
  PROVE  Slot(k) < Slot(l)
<1> DEFINE P == {m \in 1 .. (k + 1) - 1 : Positional(m)}
           Q == {m \in 1 .. l - 1 : Positional(m)}
<1>1. P \subseteq Q /\ Q \subseteq 1 .. l - 1
  OBVIOUS
<1>2. Slot(k + 1) = 1 + Cardinality(P) /\ Slot(l) = 1 + Cardinality(Q)
  BY DEF Slot
<1> HIDE DEF P, Q
<1>3. IsFiniteSet(1 .. l - 1)
  BY FS_Interval
<1>4. IsFiniteSet(Q) /\ Cardinality(Q) \in Nat /\ Cardinality(P) \in Nat
      /\ Cardinality(P) <= Cardinality(Q)
  BY <1>1, <1>3, FS_Subset, FS_CardinalityType
<1>5. Slot(k + 1) = Slot(k) + 1 /\ Slot(k) \in Nat
  BY SlotNext
<1> QED BY <1>2, <1>4, <1>5

\* A step that leaves args alone leaves its meaning alone.
LEMMA ArgsKept ==
  ASSUME args' = args
  PROVE  /\ N' = N
         /\ \A k : /\ Behind(k)' <=> Behind(k)
                   /\ Positional(k)' <=> Positional(k)
                   /\ Slot(k)' = Slot(k)
BY DEF N, Behind, Positional, Slot, Waiting, ReadLetter

\* What apply_option does to the program: it goes on or exits.
LEMMA ApplyFacts ==
  ASSUME TypeOK, NEW o, NEW a, Apply(o, a), status = "parsing"
  PROVE  /\ DOMAIN settings' = DOMAIN Initial
         /\ status' \in {"parsing", "help", "error"}
BY DEF TypeOK, Apply, Exit, Set

LEMMA InitOK == Init => IInv
<1> SUFFICES ASSUME Init PROVE IInv
  OBVIOUS
<1>1. args \in Seq(Words)
  <2>1. PICK n \in 0 .. MaxWords : args \in [1 .. n -> Words]
    BY DEF Init
  <2>2. n \in Nat
    BY OptionsAssumption
  <2> QED BY <2>1, <2>2
<1>2. N \in Nat /\ argv \in [1 .. N -> Words \cup {None}]
  BY <1>1 DEF Init, N
<1>3. Slot(1) = 1
  <2>1. {m \in 1 .. 1 - 1 : Positional(m)} = {}
    OBVIOUS
  <2> QED BY <2>1, FS_EmptySet DEF Slot
<1>4. ~Behind(1)
  BY DEF Behind
<1>5. TypeOK
  <2>1. i \in 1 .. N + 1 /\ c \in 1 .. i /\ argc \in {N + 1, c} /\ j \in Nat \ {0}
    BY <1>1, <1>2 DEF Init, N
  <2>2. /\ option = None /\ ended \in BOOLEAN
        /\ settings = Initial /\ status = "parsing"
    BY DEF Init
  <2> QED BY <1>1, <1>2, <2>1, <2>2 DEF TypeOK
<1>6. WordsKept
  BY DEF Init, WordsKept
<1>7. Place
  BY <1>3, <1>4 DEF Init, Place, N
<1> QED BY <1>5, <1>6, <1>7 DEF IInv

\* A word that is passed over: i goes on, and the word is not positional.
LEMMA PassedOver ==
  ASSUME IInv, i \in 1 .. N, i' = i + 1, ~Positional(i),
         UNCHANGED << args, argv, argc, c >>,
         status = "parsing", status' \in {"parsing", "help", "error"}
  PROVE  WordsKept' /\ c' = Slot(i)' /\ argc' = N' + 1
<1>1. args \in Seq(Words)
  BY DEF IInv, TypeOK
<1>2. N \in Nat
  BY <1>1, ArgsFacts
<1>3. Slot(i + 1) = c
  BY <1>1, SlotNext DEF IInv, Place
<1>4. \A k \in i + 1 .. N : argv[k] = args[k]
  BY <1>2 DEF IInv, WordsKept
<1>5. \A k \in 1 .. (i + 1) - 1 : Positional(k) => argv[Slot(k)] = args[k]
  <2>1. \A k \in 1 .. i - 1 : Positional(k) => argv[Slot(k)] = args[k]
    BY DEF IInv, WordsKept
  <2> QED BY <1>2, <2>1
<1>6. N' = N /\ \A k : /\ Positional(k)' <=> Positional(k)
                       /\ Slot(k)' = Slot(k)
  BY ArgsKept
<1>7. WordsKept'
  <2>1. \A k \in i' .. N' : argv'[k] = args'[k]
    BY <1>4, <1>6
  <2>2. \A k \in 1 .. i' - 1 : Positional(k)' => argv'[Slot(k)'] = args'[k]
    BY <1>5, <1>6
  <2> QED BY <2>1, <2>2 DEF WordsKept
<1>8. Slot(i)' = Slot(i + 1)
  BY <1>6 DEF Slot, Positional, Behind, Waiting, ReadLetter
<1> QED BY <1>3, <1>6, <1>7, <1>8 DEF IInv, Place

\* The same for a step that stays at the word.
LEMMA Stays ==
  ASSUME IInv, UNCHANGED << args, argv, argc, c, i >>,
         status = "parsing", status' \in {"parsing", "help", "error"}
  PROVE  WordsKept' /\ c' = Slot(i)' /\ argc' = N' + 1
<1>1. N' = N /\ \A k : /\ Positional(k)' <=> Positional(k)
                       /\ Slot(k)' = Slot(k)
  BY ArgsKept
<1>2. WordsKept'
  <2>1. \A k \in i' .. N' : argv'[k] = args'[k]
    BY <1>1 DEF IInv, WordsKept
  <2>2. \A k \in 1 .. i' - 1 : Positional(k)' => argv'[Slot(k)'] = args'[k]
    BY <1>1 DEF IInv, WordsKept
  <2> QED BY <2>1, <2>2 DEF WordsKept
<1>3. Slot(i)' = Slot(i)
  BY ArgsKept DEF Slot, Positional, Behind, Waiting, ReadLetter
<1> QED BY <1>1, <1>2, <1>3 DEF IInv, Place

\* The word that the loop looks at.
LEMMA WordRead ==
  ASSUME IInv, Parsing
  PROVE  /\ args \in Seq(Words) /\ N \in Nat /\ i \in 1 .. N
         /\ argv[i] = args[i]
         /\ status = "parsing" /\ argc = N + 1
         /\ ended <=> Behind(i)
<1>1. args \in Seq(Words) /\ i \in 1 .. N + 1
  BY DEF IInv, TypeOK
<1>2. N \in Nat /\ status = "parsing" /\ argc = N + 1 /\ i < argc
  BY <1>1, ArgsFacts DEF IInv, Place, Parsing
<1>3. i \in 1 .. N
  BY <1>1, <1>2
<1> QED BY <1>1, <1>2, <1>3 DEF IInv, WordsKept, Place

\* Behind is a matter of args, here at the word after the one that is read.
LEMMA BehindKept ==
  ASSUME IInv, Parsing, args' = args, i' = i + 1
  PROVE  Behind(i)' <=> Behind(i) \/ args[i].kind = "end"
<1>1. Behind(i)' <=> Behind(i + 1)
  BY DEF Behind
<1> QED BY <1>1, WordRead, SlotNext

LEMMA WaitingKept ==
  ASSUME args' = args, i' = i + 1, i \in Nat
  PROVE  Waiting(args[i - 1])' = Waiting(args[i])
BY DEF Waiting, ReadLetter

\* Types, for a step that leaves argv alone.
LEMMA TypeKept ==
  ASSUME IInv, UNCHANGED << args, argv, argc, c >>,
         \/ i' = i
         \/ Parsing /\ i' = i + 1,
         j' \in Nat \ {0}, option' = None \/ option'.parameter, ended' \in BOOLEAN,
         DOMAIN settings' = DOMAIN Initial, status' \in {"parsing", "help", "error"}
  PROVE  TypeOK'
<1>1. N' = N
  BY ArgsKept
<1>2. args \in Seq(Words) /\ N \in Nat /\ i \in 1 .. N + 1 /\ c \in 1 .. i
  BY ArgsFacts DEF IInv, TypeOK
<1>3. i' \in 1 .. N + 1 /\ c \in 1 .. i'
  BY <1>2, WordRead
<1>4. argv \in [1 .. N -> Words \cup {None}] /\ argc \in {N + 1, c}
  BY DEF IInv, TypeOK
<1> QED BY <1>1, <1>2, <1>3, <1>4 DEF TypeOK

LEMMA NoArgumentStep == IInv /\ NoArgument => IInv'
<1> SUFFICES ASSUME IInv, NoArgument PROVE IInv'
  OBVIOUS
<1>1. Apply(option, None) /\ Parsing /\ ~ended /\ argv[i].kind # "plain"
      /\ option' = None /\ UNCHANGED << args, argv, argc, i, j, c, ended >>
      /\ option # None
  BY DEF NoArgument
<1>2. status = "parsing" /\ argv[i] = args[i]
  BY <1>1, WordRead
<1>3. DOMAIN settings' = DOMAIN Initial /\ status' \in {"parsing", "help", "error"}
  BY <1>1, <1>2, ApplyFacts DEF IInv
<1>4. TypeOK'
  <2>1. j \in Nat \ {0} /\ ended \in BOOLEAN
    BY DEF IInv, TypeOK
  <2> QED BY <1>1, <1>3, <2>1, TypeKept
<1>5. WordsKept' /\ c' = Slot(i)' /\ argc' = N' + 1
  BY <1>1, <1>2, <1>3, Stays
<1>6. Place'
  <2>1. ended' <=> Behind(i)'
    BY <1>1, WordRead DEF Behind
  <2>2. j = 1
    BY <1>1 DEF IInv, Place, TypeOK
  <2> QED BY <1>1, <1>2, <1>5, <2>1, <2>2 DEF Place
<1> QED BY <1>4, <1>5, <1>6 DEF IInv

LEMMA EndOfOptionsStep == IInv /\ EndOfOptions => IInv'
<1> SUFFICES ASSUME IInv, EndOfOptions PROVE IInv'
  OBVIOUS
<1>1. Parsing /\ ~ended /\ argv[i].kind = "end" /\ option = None
      /\ ended' = TRUE /\ i' = i + 1 /\ j' = 1
      /\ UNCHANGED << args, argv, argc, c, option, settings, status >>
  BY DEF EndOfOptions, Option, NextWord
<1>2. status = "parsing" /\ argv[i] = args[i] /\ i \in 1 .. N
      /\ ~Behind(i)
  BY <1>1, WordRead
<1>3. ~Positional(i)
  BY <1>1, <1>2 DEF Positional
<1>4. TypeOK'
  <2>1. DOMAIN settings' = DOMAIN Initial
    BY <1>1 DEF IInv, TypeOK
  <2> QED BY <1>1, <1>2, <2>1, TypeKept
<1>5. WordsKept' /\ c' = Slot(i)' /\ argc' = N' + 1
  BY <1>1, <1>2, <1>3, PassedOver
<1>6. ended' <=> Behind(i)'
  BY <1>1, <1>2, BehindKept
<1>7. Place'
  BY <1>1, <1>5, <1>6 DEF Place
<1> QED BY <1>4, <1>5, <1>7 DEF IInv

\* An option word that is done with: what waits is what the word leaves waiting.
LEMMA OptionDone ==
  ASSUME IInv, Parsing, ~ended, argv[i].kind \in {"long", "short"},
         i' = i + 1, j' = 1, UNCHANGED << args, argv, argc, c, ended >>,
         \/ option' = None /\ ~Waiting(args[i]).parameter
         \/ option' # None /\ option'.parameter /\ Waiting(args[i]).parameter,
         DOMAIN settings' = DOMAIN Initial, status' \in {"parsing", "help", "error"}
  PROVE  IInv'
<1>1. status = "parsing" /\ argv[i] = args[i] /\ i \in 1 .. N /\ N \in Nat
      /\ ~Behind(i)
  BY WordRead
<1>2. ~Positional(i)
  BY <1>1 DEF Positional
<1>3. TypeOK'
  <2>1. ended \in BOOLEAN
    BY DEF IInv, TypeOK
  <2> QED BY <2>1, TypeKept
<1>4. WordsKept' /\ c' = Slot(i)' /\ argc' = N' + 1
  BY <1>1, <1>2, PassedOver
<1>5. ended' <=> Behind(i)'
  BY <1>1, BehindKept
<1>6. Waiting(args[i - 1])' = Waiting(args[i]) /\ i' > 1
  BY <1>1, WaitingKept
<1>7. CASE option' = None /\ ~Waiting(args[i]).parameter
  <2>1. Place'
    BY <1>4, <1>5, <1>6, <1>7 DEF Place
  <2> QED BY <1>3, <1>4, <2>1 DEF IInv
<1>8. CASE option' # None /\ Waiting(args[i]).parameter
  <2>1. Waiting(args[i - 1])'.parameter
    BY <1>6, <1>8
  <2>2. Place'
    BY <1>4, <1>5, <1>6, <2>1 DEF Place
  <2> QED BY <1>3, <1>4, <2>2 DEF IInv
<1> QED BY <1>7, <1>8

LEMMA TakeArgumentStep == IInv /\ TakeArgument => IInv'
<1> SUFFICES ASSUME IInv, TakeArgument PROVE IInv'
  OBVIOUS
<1>1. Parsing /\ ~ended /\ argv[i].kind = "plain" /\ option # None
      /\ Apply(option, Argument(argv[i], 0)) /\ option' = None /\ i' = i + 1 /\ j' = 1
      /\ UNCHANGED << args, argv, argc, c, ended >>
  BY DEF TakeArgument, NextWord
<1>2. status = "parsing" /\ argv[i] = args[i] /\ i \in 1 .. N /\ N \in Nat
      /\ ~Behind(i)
  BY <1>1, WordRead
<1>3. i > 1 /\ Waiting(args[i - 1]).parameter
  BY <1>1 DEF IInv, Place
<1>4. ~Positional(i)
  BY <1>2, <1>3 DEF Positional
<1>5. DOMAIN settings' = DOMAIN Initial /\ status' \in {"parsing", "help", "error"}
  BY <1>1, <1>2, ApplyFacts DEF IInv
<1>6. TypeOK'
  <2>1. ended \in BOOLEAN
    BY DEF IInv, TypeOK
  <2> QED BY <1>1, <1>5, <2>1, TypeKept
<1>7. WordsKept' /\ c' = Slot(i)' /\ argc' = N' + 1
  BY <1>1, <1>2, <1>4, <1>5, PassedOver
<1>8. ended' <=> Behind(i)'
  BY <1>1, <1>2, BehindKept
<1>9. Waiting(args[i - 1])' = Waiting(args[i]) /\ ~Waiting(args[i]).parameter
  <2>1. Waiting(args[i]) = Unknown
    BY <1>1, <1>2 DEF Waiting
  <2> QED BY <1>1, <1>2, <2>1, WaitingKept DEF Unknown
<1>10. Place'
  BY <1>1, <1>7, <1>8, <1>9 DEF Place
<1> QED BY <1>6, <1>7, <1>10 DEF IInv

LEMMA LongOptionStep == IInv /\ LongOption => IInv'
<1> SUFFICES ASSUME IInv, LongOption PROVE IInv'
  OBVIOUS
<1> DEFINE w == args[i]
           o == LookupLong(w.name)
           v == IF w.valued THEN Argument(w, 0) ELSE None
<1>1. Parsing /\ ~ended /\ argv[i].kind = "long" /\ option = None
      /\ i' = i + 1 /\ j' = 1 /\ UNCHANGED << args, argv, argc, c, ended >>
  BY DEF LongOption, Option, NextWord
<1>2. argv[i] = w /\ status = "parsing"
  BY <1>1, WordRead
<1>3. w.kind = "long" /\ w.valued \in BOOLEAN
  BY <1>1, <1>2, WordRead, ArgsFacts, OptionsAssumption
<1>4. \/ /\ ~o.known \/ (w.valued /\ ~o.parameter)
         /\ Exit("error")
         /\ option' = None
      \/ /\ o.known /\ (w.valued <=> o.parameter)
         /\ Apply(o, v)
         /\ option' = None
      \/ /\ o.parameter /\ ~w.valued
         /\ option' = o
         /\ UNCHANGED << settings, status >>
  BY <1>1, <1>2 DEF LongOption
<1>5. /\ o.known \in BOOLEAN /\ o.parameter \in BOOLEAN
      /\ o.parameter => o.known /\ o # None
  BY LookupFacts
<1>6. Waiting(w).parameter <=> ~w.valued /\ o.parameter
  BY <1>3, <1>5 DEF Waiting, Unknown
<1>7. DOMAIN settings = DOMAIN Initial
  BY DEF IInv, TypeOK
<1> HIDE DEF w, o, v
<1>8. CASE (~o.known \/ (w.valued /\ ~o.parameter)) /\ Exit("error") /\ option' = None
  <2>1. ~Waiting(w).parameter
    BY <1>5, <1>6, <1>8
  <2>2. status' = "error" /\ settings' = settings
    BY <1>8 DEF Exit
  <2> QED BY <1>1, <1>7, <1>8, <2>1, <2>2, OptionDone DEF w
<1>9. CASE o.known /\ (w.valued <=> o.parameter) /\ Apply(o, v) /\ option' = None
  <2>1. ~Waiting(w).parameter
    BY <1>6, <1>9
  <2>2. DOMAIN settings' = DOMAIN Initial /\ status' \in {"parsing", "help", "error"}
    BY <1>2, <1>9, ApplyFacts DEF IInv
  <2> QED BY <1>1, <1>9, <2>1, <2>2, OptionDone DEF w
<1>10. CASE o.parameter /\ ~w.valued /\ option' = o /\ UNCHANGED << settings, status >>
  <2>1. Waiting(w).parameter /\ option' # None /\ option'.parameter
    BY <1>5, <1>6, <1>10
  <2> QED BY <1>1, <1>2, <1>7, <1>10, <2>1, OptionDone DEF w
<1> QED BY <1>4, <1>8, <1>9, <1>10

LEMMA LastOptionStep == IInv /\ LastOption => IInv'
<1> SUFFICES ASSUME IInv, LastOption PROVE IInv'
  OBVIOUS
<1>1. status = "parsing" /\ i >= argc /\ option # None /\ Apply(option, None)
      /\ option' = None /\ UNCHANGED << args, argv, argc, i, j, c, ended >>
  BY DEF LastOption
<1>2. DOMAIN settings' = DOMAIN Initial /\ status' \in {"parsing", "help", "error"}
  BY <1>1, ApplyFacts DEF IInv
<1>3. TypeOK'
  <2>1. j \in Nat \ {0} /\ ended \in BOOLEAN
    BY DEF IInv, TypeOK
  <2> QED BY <1>1, <1>2, <2>1, TypeKept
<1>4. WordsKept' /\ c' = Slot(i)' /\ argc' = N' + 1
  BY <1>1, <1>2, Stays
<1>5. ~(i <= N) /\ N' = N
  <2>1. N \in Nat /\ i \in 1 .. N + 1
    BY ArgsFacts DEF IInv, TypeOK
  <2> QED BY <1>1, <2>1, ArgsKept DEF IInv, Place
<1>6. ended' <=> Behind(i)'
  <2>1. Behind(i)' <=> Behind(i)
    BY <1>1 DEF Behind
  <2> QED BY <1>1, <2>1 DEF IInv, Place
<1>7. ~(j > 1)
  BY <1>1 DEF IInv, Place
<1>8. Place'
  BY <1>1, <1>4, <1>5, <1>6, <1>7 DEF Place
<1> QED BY <1>3, <1>4, <1>8 DEF IInv

\* A step that changes at most the status, after the parse.
LEMMA OnlyStatus ==
  ASSUME IInv, UNCHANGED << args, argv, argc, i, j, c, option, ended, settings >>,
         status' = status \/ (status = "parsed" /\ status' \in {"help", "run"})
  PROVE  IInv'
<1>1. TypeOK'
  BY DEF IInv, TypeOK, N
<1>2. WordsKept'
  <2>1. N' = N /\ \A k : /\ Positional(k)' <=> Positional(k)
                         /\ Slot(k)' = Slot(k)
    BY ArgsKept
  <2>2. \A k \in i' .. N' : argv'[k] = args'[k]
    BY <2>1 DEF IInv, WordsKept
  <2>3. \A k \in 1 .. i' - 1 : Positional(k)' => argv'[Slot(k)'] = args'[k]
    BY <2>1 DEF IInv, WordsKept
  <2>4. status' \in {"parsed", "run"} =>
            i = N + 1 /\ argc = Slot(N + 1) /\ \A k \in argc .. N : argv[k] = None
    BY DEF IInv, WordsKept
  <2>5. Slot(N + 1)' = Slot(N + 1)
    BY DEF N, Slot, Positional, Behind, Waiting, ReadLetter
  <2> QED BY <2>1, <2>2, <2>3, <2>4, <2>5 DEF WordsKept
<1>3. Place'
  BY DEF IInv, Place, N, Slot, Positional, Behind, Waiting, ReadLetter
<1> QED BY <1>1, <1>2, <1>3 DEF IInv

LEMMA MainStep == IInv /\ Main => IInv'
BY OnlyStatus DEF Main, walk

LEMMA ShortOptionStep == IInv /\ ShortOption => IInv'
<1> SUFFICES ASSUME IInv, ShortOption PROVE IInv'
  OBVIOUS
<1> DEFINE w == args[i]
           l == Len(w.letters)
           o == LookupShort(w.letters[j])
<1>1. Parsing /\ ~ended /\ argv[i].kind = "short" /\ option = None
      /\ UNCHANGED << args, argv, argc, c, ended >>
  BY DEF ShortOption, Option
<1>2. argv[i] = w /\ status = "parsing" /\ i \in 1 .. N
  BY <1>1, WordRead
<1>3. w.kind = "short" /\ w.letters \in Seq(STRING) /\ w.letters # << >>
  BY <1>1, <1>2, WordRead, ArgsFacts, OptionsAssumption
<1>4. l \in Nat \ {0} /\ DOMAIN w.letters = 1 .. l
  BY <1>3
<1>5. j \in 1 .. l /\ ReadLetter(w, j)
  <2>1. CASE j > 1
    BY <1>4, <2>1 DEF IInv, Place
  <2>2. CASE j = 1
    BY <1>4, <2>2 DEF ReadLetter
  <2> QED BY <2>1, <2>2 DEF IInv, TypeOK
<1>6. \/ /\ ~o.known
         /\ Exit("error")
         /\ UNCHANGED << i, j, option >>
      \/ /\ o.known /\ ~o.parameter
         /\ Apply(o, None)
         /\ IF j = l THEN NextWord ELSE i' = i /\ j' = j + 1
         /\ UNCHANGED option
      \/ /\ o.parameter /\ j # l
         /\ Apply(o, Argument(w, j + 1))
         /\ NextWord
         /\ UNCHANGED option
      \/ /\ o.parameter /\ j = l
         /\ option' = o
         /\ NextWord
         /\ UNCHANGED << settings, status >>
  BY <1>1, <1>2 DEF ShortOption
<1>7. /\ o.known \in BOOLEAN /\ o.parameter \in BOOLEAN
      /\ o.parameter => o.known /\ o # None
  BY LookupFacts
<1>8. Waiting(w).parameter <=> ReadLetter(w, l) /\ LookupShort(w.letters[l]).parameter
  BY <1>3 DEF Waiting, Unknown
<1>9. DOMAIN settings = DOMAIN Initial /\ ended \in BOOLEAN
  BY DEF IInv, TypeOK
<1>10. ended <=> Behind(i)
  BY <1>1, WordRead
<1>11. ASSUME i' = i PROVE (ended' <=> Behind(i)') /\ N' = N
  BY <1>1, <1>10, <1>11, ArgsKept DEF Behind
<1>12. CASE ~o.known /\ Exit("error") /\ UNCHANGED << i, j, option >>
  <2>1. status' = "error" /\ settings' = settings
    BY <1>12 DEF Exit
  <2>2. TypeOK'
    BY <1>1, <1>5, <1>9, <1>12, <2>1, TypeKept DEF IInv, TypeOK
  <2>3. WordsKept' /\ c' = Slot(i)' /\ argc' = N' + 1
    BY <1>1, <1>2, <1>12, <2>1, Stays
  <2>4. Place'
    <3>1. UNCHANGED << args, i, j, option, ended >>
      BY <1>1, <1>12
    <3> QED BY <1>1, <1>11, <2>3, <3>1 DEF IInv, Place, Waiting, ReadLetter, N
  <2> QED BY <2>2, <2>3, <2>4 DEF IInv
<1>13. CASE /\ o.known /\ ~o.parameter /\ Apply(o, None) /\ UNCHANGED option
            /\ IF j = l THEN NextWord ELSE i' = i /\ j' = j + 1
  <2>1. DOMAIN settings' = DOMAIN Initial /\ status' \in {"parsing", "help", "error"}
    BY <1>2, <1>13, ApplyFacts DEF IInv
  <2>2. CASE j = l
    <3>1. i' = i + 1 /\ j' = 1
      BY <1>13, <2>2 DEF NextWord
    <3>2. ~Waiting(w).parameter
      BY <1>8, <1>13, <2>2
    <3>3. option' = None
      BY <1>1, <1>13
    <3> HIDE DEF w, o, l
    <3> QED BY <1>1, <2>1, <3>1, <3>2, <3>3, OptionDone DEF w
  <2>3. CASE j # l
    <3>1. i' = i /\ j' = j + 1 /\ option' = None
      BY <1>1, <1>13, <2>3
    <3>2. TypeOK'
      BY <1>1, <1>5, <1>9, <2>1, <3>1, TypeKept
    <3>3. WordsKept' /\ c' = Slot(i)' /\ argc' = N' + 1
      BY <1>1, <1>2, <2>1, <3>1, Stays
    <3>4. j + 1 \in DOMAIN w.letters
      BY <1>4, <1>5, <2>3
    <3>5. ReadLetter(w, j + 1)
      <4>1. \A q \in 1 .. j - 1 : ~LookupShort(w.letters[q]).parameter
        BY <1>5 DEF ReadLetter
      <4>2. ~LookupShort(w.letters[j]).parameter
        BY <1>13
      <4>3. \A q \in 1 .. (j + 1) - 1 : q \in 1 .. j - 1 \/ q = j
        BY <1>4, <1>5
      <4> QED BY <4>1, <4>2, <4>3 DEF ReadLetter
    <3>6. args[i]' = w /\ i' <= N'
      BY <1>1, <1>2, <1>11, <3>1, ArgsFacts DEF IInv, TypeOK
    <3>7. ReadLetter(args[i], j)'
      BY <3>1, <3>5, <3>6 DEF ReadLetter
    <3>8. w.kind # "plain"
      BY <1>3
    <3> HIDE DEF w, o, l
    <3>9. Place'
      BY <1>1, <1>11, <3>1, <3>3, <3>4, <3>6, <3>7, <3>8 DEF Place
    <3> QED BY <3>2, <3>3, <3>9 DEF IInv
  <2> QED BY <2>2, <2>3
<1>14. CASE /\ o.parameter /\ j # l /\ Apply(o, Argument(w, j + 1)) /\ NextWord
            /\ UNCHANGED option
  <2>1. DOMAIN settings' = DOMAIN Initial /\ status' \in {"parsing", "help", "error"}
    BY <1>2, <1>14, ApplyFacts DEF IInv
  <2>2. ~ReadLetter(w, l)
    <3>1. j \in 1 .. l - 1
      BY <1>4, <1>5, <1>14
    <3> QED BY <1>14, <3>1 DEF ReadLetter
  <2>3. ~Waiting(w).parameter
    BY <1>8, <2>2
  <2>4. option' = None /\ i' = i + 1 /\ j' = 1
    BY <1>1, <1>14 DEF NextWord
  <2> HIDE DEF w, o, l
  <2> QED BY <1>1, <2>1, <2>3, <2>4, OptionDone DEF w
<1>15. CASE /\ o.parameter /\ j = l /\ option' = o /\ NextWord
            /\ UNCHANGED << settings, status >>
  <2>1. Waiting(w).parameter
    BY <1>5, <1>8, <1>15
  <2>2. option' # None /\ option'.parameter /\ i' = i + 1 /\ j' = 1
    BY <1>7, <1>15 DEF NextWord
  <2> HIDE DEF w, o, l
  <2> QED BY <1>1, <1>2, <1>9, <1>15, <2>1, <2>2, OptionDone DEF w
<1> HIDE DEF w, o, l
<1> QED BY <1>6, <1>12, <1>13, <1>14, <1>15

LEMMA KeepStep == IInv /\ Keep => IInv'
<1> SUFFICES ASSUME IInv, Keep PROVE IInv'
  OBVIOUS
<1>1. Parsing /\ (ended \/ (argv[i].kind = "plain" /\ option = None))
      /\ argv' = [argv EXCEPT ![c] = argv[i]] /\ c' = c + 1 /\ i' = i + 1 /\ j' = 1
      /\ UNCHANGED << args, argc, option, ended, settings, status >>
  BY DEF Keep, NextWord
<1>2. args \in Seq(Words) /\ N \in Nat /\ i \in 1 .. N /\ argv[i] = args[i]
      /\ status = "parsing" /\ argc = N + 1 /\ (ended <=> Behind(i))
  BY <1>1, WordRead
<1>3. args[i] \in Words
  BY <1>2, ArgsFacts
<1>4. Positional(i)
  BY <1>1, <1>2 DEF Positional, IInv, Place
<1>5. c = Slot(i) /\ c \in 1 .. i /\ Slot(i + 1) = c + 1
  BY <1>2, <1>4, SlotNext DEF IInv, Place, TypeOK
<1>6. argv \in [1 .. N -> Words \cup {None}]
  BY DEF IInv, TypeOK
<1>7. N' = N /\ \A k : /\ Positional(k)' <=> Positional(k)
                       /\ Slot(k)' = Slot(k)
  BY <1>1, ArgsKept
<1>8. argv' \in [1 .. N -> Words \cup {None}]
  BY <1>1, <1>2, <1>3, <1>6
<1>9. TypeOK'
  <2>1. i' \in 1 .. N + 1 /\ c' \in 1 .. i' /\ j' \in Nat \ {0} /\ argc' = N + 1
    BY <1>1, <1>2, <1>5
  <2>2. /\ option' = None \/ option'.parameter
        /\ ended' \in BOOLEAN
        /\ DOMAIN settings' = DOMAIN Initial
        /\ status' = "parsing"
    BY <1>1, <1>2 DEF IInv, TypeOK
  <2> QED BY <1>1, <1>2, <1>7, <1>8, <2>1, <2>2 DEF TypeOK
<1>10. WordsKept'
  <2>1. ASSUME NEW k \in i + 1 .. N PROVE argv'[k] = args[k]
    <3>1. k \in i .. N /\ k # c /\ k \in 1 .. N
      BY <1>2, <1>5
    <3>2. argv'[k] = argv[k]
      BY <1>1, <1>6, <3>1
    <3> QED BY <3>1, <3>2 DEF IInv, WordsKept
  <2>2. ASSUME NEW k \in 1 .. i, Positional(k) PROVE argv'[Slot(k)] = args[k]
    <3>1. CASE k = i
      BY <1>1, <1>2, <1>5, <1>6, <3>1
    <3>2. CASE k # i
      <4>1. k \in 1 .. i - 1 /\ k \in Nat \ {0} /\ k < i /\ i \in Nat
        BY <1>2, <3>2
      <4>2. Slot(k) < c
        BY <1>2, <1>5, <2>2, <4>1, SlotGrows
      <4>3. Slot(k) \in 1 .. k
        BY <1>2, <4>1, SlotNext
      <4>4. Slot(k) \in 1 .. N /\ Slot(k) # c
        BY <1>2, <1>5, <4>1, <4>2, <4>3
      <4>5. argv[Slot(k)] = args[k]
        BY <2>2, <4>1 DEF IInv, WordsKept
      <4> QED BY <1>1, <1>6, <4>4, <4>5
    <3> QED BY <3>1, <3>2
  <2>3. \A k \in i' .. N' : argv'[k] = args'[k]
    BY <1>1, <1>7, <2>1
  <2>4. i' - 1 = i
    BY <1>1, <1>2
  <2>5. \A k \in 1 .. i' - 1 : Positional(k)' => argv'[Slot(k)'] = args'[k]
    BY <1>1, <1>7, <2>2, <2>4
  <2>6. status' = "parsing"
    BY <1>1, <1>2
  <2> QED BY <2>3, <2>5, <2>6 DEF WordsKept
<1>11. Place'
  <2>1. c' = Slot(i)'
    <3>1. Slot(i)' = Slot(i + 1)
      BY <1>1 DEF Slot, Positional, Behind, Waiting, ReadLetter
    <3> QED BY <1>1, <1>5, <3>1
  <2>2. ended' <=> Behind(i)'
    <3>1. Behind(i)' <=> Behind(i) \/ args[i].kind = "end"
      BY <1>1, BehindKept
    <3>2. ended \/ args[i].kind = "plain"
      BY <1>1, <1>2
    <3> QED BY <1>1, <1>2, <3>1, <3>2
  <2>3. argc' = N' + 1 /\ j' = 1
    BY <1>1, <1>2, <1>7
  <2>4. option' # None => FALSE
    BY <1>1 DEF IInv, Place
  <2>5. ~ended' => ~Waiting(args[i - 1])'.parameter
    <3>1. ~ended => Waiting(args[i]) = Unknown
      BY <1>1, <1>2 DEF Waiting
    <3>2. Waiting(args[i - 1])' = Waiting(args[i])
      BY <1>1, <1>2, WaitingKept
    <3> QED BY <1>1, <3>1, <3>2 DEF Unknown
  <2> QED BY <2>1, <2>2, <2>3, <2>4, <2>5 DEF Place
<1> QED BY <1>9, <1>10, <1>11 DEF IInv

LEMMA CleanStep == IInv /\ Clean => IInv'
<1> SUFFICES ASSUME IInv, Clean PROVE IInv'
  OBVIOUS
<1>1. status = "parsing" /\ i >= argc /\ option = None
      /\ argv' = [k \in DOMAIN argv |-> IF k >= c /\ k < argc THEN None ELSE argv[k]]
      /\ argc' = c /\ status' = "parsed"
      /\ UNCHANGED << args, i, j, c, option, ended, settings >>
  BY DEF Clean, walk
<1>2. /\ args \in Seq(Words) /\ argv \in [1 .. N -> Words \cup {None}]
      /\ i \in 1 .. N + 1 /\ c \in 1 .. i
  BY DEF IInv, TypeOK
<1>3. N \in Nat /\ argc = N + 1 /\ i = N + 1 /\ c = Slot(i)
  BY <1>1, <1>2, ArgsFacts DEF IInv, Place
<1>4. N' = N /\ \A k : /\ Positional(k)' <=> Positional(k)
                       /\ Slot(k)' = Slot(k)
  BY <1>1, ArgsKept
<1>5. argv' \in [1 .. N -> Words \cup {None}]
  BY <1>1, <1>2
<1>6. TypeOK'
  BY <1>1, <1>2, <1>4, <1>5 DEF IInv, TypeOK
<1>7. WordsKept'
  <2>1. ASSUME NEW k \in 1 .. i - 1, Positional(k) PROVE argv'[Slot(k)] = args[k]
    <3>1. k \in Nat \ {0} /\ k < i /\ i \in Nat
      BY <1>3
    <3>2. Slot(k) < c /\ Slot(k) \in 1 .. k
      BY <1>2, <1>3, <2>1, <3>1, SlotGrows, SlotNext
    <3>3. Slot(k) \in 1 .. N /\ ~(Slot(k) >= c)
      BY <1>2, <1>3, <3>1, <3>2
    <3>4. argv[Slot(k)] = args[k]
      BY <2>1 DEF IInv, WordsKept
    <3> QED BY <1>1, <1>2, <3>3, <3>4
  <2>2. \A k \in c .. N : argv'[k] = None
    BY <1>1, <1>2, <1>3
  <2>3. Slot(N + 1)' = Slot(N + 1)
    BY <1>1 DEF N, Slot, Positional, Behind, Waiting, ReadLetter
  <2>4. \A k \in i' .. N' : argv'[k] = args'[k]
    BY <1>1, <1>3, <1>4
  <2>5. \A k \in 1 .. i' - 1 : Positional(k)' => argv'[Slot(k)'] = args'[k]
    BY <1>1, <1>4, <2>1
  <2>6. i' = N' + 1 /\ argc' = Slot(N + 1)' /\ \A k \in argc' .. N' : argv'[k] = None
    BY <1>1, <1>3, <1>4, <2>2, <2>3
  <2> QED BY <2>4, <2>5, <2>6 DEF WordsKept
<1>8. Place'
  <2>1. Slot(i)' = Slot(i) /\ (Behind(i)' <=> Behind(i))
    BY <1>1 DEF Slot, Positional, Behind, Waiting, ReadLetter
  <2>2. ~(j > 1) \/ i <= N
    BY DEF IInv, Place
  <2>3. ~(i <= N)
    BY <1>3
  <2>4. ended <=> Behind(i)
    BY DEF IInv, Place
  <2> QED BY <1>1, <1>3, <1>4, <2>1, <2>2, <2>3, <2>4 DEF Place
<1> QED BY <1>6, <1>7, <1>8 DEF IInv

LEMMA InvStep == IInv /\ [Next]_vars => IInv'
<1> SUFFICES ASSUME IInv, [Next]_vars PROVE IInv'
  OBVIOUS
<1>1. CASE Next
  BY <1>1, NoArgumentStep, EndOfOptionsStep, LongOptionStep, ShortOptionStep,
     TakeArgumentStep, KeepStep, LastOptionStep, CleanStep, MainStep DEF Next
<1>2. CASE UNCHANGED vars
  BY <1>2, OnlyStatus DEF vars
<1> QED BY <1>1, <1>2

LEMMA Inductive == Spec => []IInv
BY InitOK, InvStep, PTL DEF Spec

\* The types, and that words never overtake the one that is read.
THEOREM TypeCorrect == Spec => []TypeOK
BY Inductive, PTL DEF IInv

\* All positional arguments end up at the front of argv, in order, for every list
\* of options and every command line.
THEOREM AllWordsKept == Spec => []WordsKept
BY Inductive, PTL DEF IInv

-----------------------------------------------------------------------------
(***************************************************************************)
(* What the options do                                                     *)
(***************************************************************************)

\* The options that the loop has passed, and the one of them that waits.
Read == {m \in Mentions : Before(m, << i, j >>)}
Last(k) == IF args[k].kind = "long" THEN 1 ELSE Len(args[k].letters)
Waits == << i - 1, Last(i - 1) >>

\* The options that were applied.
Applied == IF option = None THEN Read ELSE Read \ {Waits}

Sets(m, a) == OptionOf(m).known /\ OptionOf(m).adr = a

\* The variable a has its value from the last option in A that sets it.
LastOf(A, a, value) ==
    \/ (\A m \in A : ~Sets(m, a)) /\ value = Initial[a]
    \/ \E m \in A : /\ Sets(m, a)
                    /\ \A n \in A : Sets(n, a) => n = m \/ Before(n, m)
                    /\ value = ValueOf(m)

\* The options in A have all been carried out.
CarriedOut(A) ==
    /\ \A m \in A : Outcome(m) = "ok"
    /\ \A a \in DOMAIN Initial : LastOf(A, a, settings[a])

\* The option m is the first that ends the program, as it does.
EndsAt(m) ==
    /\ m \in Mentions
    /\ Outcome(m) = status
    /\ \A n \in Mentions : Before(n, m) => Outcome(n) = "ok"

\* Without an option that ends it the program ends for want of a file.
NoFile ==
    /\ status = "help"
    /\ \A m \in Mentions : Outcome(m) = "ok"
    /\ \A k \in 1 .. N : ~Positional(k)

Effects ==
    /\ status \in {"parsing", "parsed", "run"} => CarriedOut(Applied)
    /\ status \in {"help", "error"} => NoFile \/ \E m \in Mentions : EndsAt(m)

\* The option that waits is the last one of the word before, which has no
\* argument in it; only in a word of letters the loop goes on inside.
OptionWaits ==
    /\ option # None =>
           /\ i > 1 /\ args[i - 1].kind \in {"long", "short"}
           /\ args[i - 1].kind = "long" => ~args[i - 1].valued
           /\ Waits \in Mentions /\ option = OptionOf(Waits)
    /\ j > 1 => args[i].kind = "short"

AtEnd ==
    /\ status \in {"parsed", "run"} => option = None /\ i = N + 1
    /\ status = "run" => \E k \in 1 .. N : Positional(k)

\* The options are read in the order of their words and letters.
LEMMA LettersFacts ==
  ASSUME args \in Seq(Words), NEW k \in 1 .. N
  PROVE  /\ Letters(k) \subseteq Nat \ {0}
         /\ args[k].kind = "long" /\ ~Behind(k) => Letters(k) = {1}
         /\ args[k].kind = "short" =>
                /\ Len(args[k].letters) \in Nat \ {0}
                /\ Letters(k) \subseteq 1 .. Len(args[k].letters)
         /\ args[k].kind = "short" /\ ~Behind(k) =>
                \A p \in 1 .. Len(args[k].letters) : ReadLetter(args[k], p) => p \in Letters(k)
         /\ args[k].kind \notin {"long", "short"} \/ Behind(k) => Letters(k) = {}
<1>1. args[k] \in Words
  BY ArgsFacts
<1>2. args[k].kind = "short" =>
          /\ Len(args[k].letters) \in Nat \ {0}
          /\ DOMAIN args[k].letters = 1 .. Len(args[k].letters)
  BY <1>1, OptionsAssumption
<1>3. args[k].kind = "short" => Letters(k) \subseteq 1 .. Len(args[k].letters)
  BY <1>2 DEF Letters
<1>4. Letters(k) \subseteq Nat \ {0}
  BY <1>2 DEF Letters
<1> QED BY <1>2, <1>3, <1>4 DEF Letters

LEMMA MentionsFacts ==
  ASSUME args \in Seq(Words)
  PROVE  /\ \A k \in 1 .. N : \A p \in Letters(k) : << k, p >> \in Mentions
         /\ \A m \in Mentions : /\ m[1] \in 1 .. N /\ m[2] \in Letters(m[1])
                                /\ m = << m[1], m[2] >>
                                /\ m[1] \in Nat /\ m[2] \in Nat \ {0}
<1>1. \A k \in 1 .. N : \A p \in Letters(k) : << k, p >> \in Mentions
  BY DEF Mentions
<1>2. ASSUME NEW m \in Mentions
      PROVE  /\ m[1] \in 1 .. N /\ m[2] \in Letters(m[1]) /\ m = << m[1], m[2] >>
  BY <1>2 DEF Mentions
<1>3. N \in Nat
  BY ArgsFacts
<1> QED BY <1>1, <1>2, <1>3, LettersFacts

\* Of two options one comes before the other.
LEMMA BeforeOrder ==
  ASSUME args \in Seq(Words), NEW m \in Mentions, NEW n \in Mentions
  PROVE  /\ m = n \/ Before(m, n) \/ Before(n, m)
         /\ ~(Before(m, n) /\ Before(n, m)) /\ ~Before(m, m)
<1>1. /\ m[1] \in Nat /\ m[2] \in Nat /\ n[1] \in Nat /\ n[2] \in Nat
      /\ m = << m[1], m[2] >> /\ n = << n[1], n[2] >>
  BY MentionsFacts
<1>2. m[1] = n[1] /\ m[2] = n[2] => m = n
  BY <1>1
<1> QED BY <1>1, <1>2 DEF Before

\* What the command line means does not change while it is read.
LEMMA MeaningKept ==
  ASSUME args' = args
  PROVE  /\ Mentions' = Mentions
         /\ \A m : /\ OptionOf(m)' = OptionOf(m)
                   /\ ValueOf(m)' = ValueOf(m)
                   /\ Outcome(m)' = Outcome(m)
         /\ \A m, a : Sets(m, a)' <=> Sets(m, a)
         /\ \A k : Last(k)' = Last(k)
<1>1. N' = N
  BY DEF N
<1>2. Mentions' = Mentions
  BY <1>1 DEF Mentions, Letters, Behind, ReadLetter
<1>3. \A m : OptionOf(m)' = OptionOf(m)
  BY DEF OptionOf
<1>4. \A m : ValueOf(m)' = ValueOf(m)
  BY <1>1 DEF ValueOf, OptionOf
<1>5. \A m : Outcome(m)' = Outcome(m)
  BY <1>1 DEF Outcome, ValueOf, OptionOf
<1> QED BY <1>2, <1>3, <1>4, <1>5 DEF Sets, Last

LEMMA CarriedOutKept ==
  ASSUME args' = args, settings' = settings, NEW A, CarriedOut(A)
  PROVE  CarriedOut(A)'
<1>1. /\ \A m : Outcome(m)' = Outcome(m) /\ ValueOf(m)' = ValueOf(m)
      /\ \A m, a : Sets(m, a)' <=> Sets(m, a)
  BY MeaningKept
<1> QED BY <1>1 DEF CarriedOut, LastOf

\* An option that the code and the table treat as wrong.
Wrong(m) ==
    \/ ~OptionOf(m).known
    \/ /\ args[m[1]].kind = "long" /\ args[m[1]].valued /\ ~OptionOf(m).parameter

\* The loop applies the option m, after all that come before it.
LEMMA Performed ==
  ASSUME Effects, status = "parsing", args \in Seq(Words), args' = args,
         DOMAIN settings = DOMAIN Initial,
         NEW m \in Mentions, ~Wrong(m), NEW a,
         OptionOf(m).parameter => Used(OptionOf(m), a) = ValueOf(m),
         Apply(OptionOf(m), a),
         \A n \in Mentions : n \in Applied <=> Before(n, m),
         Applied' = Applied \cup {m}, Applied \subseteq Mentions
  PROVE  Effects'
<1> DEFINE o == OptionOf(m)
           A == Applied
<1>1. CarriedOut(A)
  BY DEF Effects
<1>2. o.known /\ ~(args[m[1]].kind = "long" /\ args[m[1]].valued /\ ~o.parameter)
  BY DEF Wrong
<1>3. /\ Mentions' = Mentions
      /\ \A n : Outcome(n)' = Outcome(n) /\ ValueOf(n)' = ValueOf(n)
      /\ \A n, x : Sets(n, x)' <=> Sets(n, x)
  BY MeaningKept
<1>4. ASSUME Outcome(m) = status', status' \in {"help", "error"}
      PROVE  Effects'
  <2>1. \A n \in Mentions : Before(n, m) => Outcome(n) = "ok"
    BY <1>1 DEF CarriedOut
  <2>2. EndsAt(m)'
    BY <1>3, <1>4, <2>1 DEF EndsAt, Before
  <2> QED BY <1>3, <1>4, <2>2 DEF Effects
<1>5. CASE o.parameter /\ Used(o, a) = None
  <2>1. Outcome(m) = "error"
    BY <1>5 DEF Outcome
  <2>2. status' = "error"
    BY <1>5 DEF Apply, Exit
  <2> QED BY <1>4, <2>1, <2>2
<1>6. CASE ~(o.parameter /\ Used(o, a) = None) /\ o.callback
  <2>1. Outcome(m) = "help"
    BY <1>2, <1>6 DEF Outcome
  <2>2. status' = "help"
    BY <1>6 DEF Apply, Exit
  <2> QED BY <1>4, <2>1, <2>2
<1>7. CASE ~(o.parameter /\ Used(o, a) = None) /\ ~o.callback
  <2>1. Outcome(m) = "ok"
    BY <1>2, <1>7 DEF Outcome
  <2>2. /\ status' = "parsing"
        /\ settings' = [settings EXCEPT ![o.adr] = ValueOf(m)]
    <3>1. Set(o, IF o.parameter THEN Used(o, a) ELSE o.flag_value)
      BY <1>7 DEF Apply
    <3>2. (IF o.parameter THEN Used(o, a) ELSE o.flag_value) = ValueOf(m)
      BY DEF ValueOf
    <3> QED BY <3>1, <3>2 DEF Set
  <2>3. ASSUME NEW x \in DOMAIN Initial PROVE LastOf(A \cup {m}, x, settings'[x])
    <3>1. CASE Sets(m, x)
      <4>1. settings'[x] = ValueOf(m)
        BY <2>2, <2>3, <3>1 DEF Sets
      <4>2. \A n \in A \cup {m} : n = m \/ Before(n, m)
        OBVIOUS
      <4> QED BY <3>1, <4>1, <4>2 DEF LastOf
    <3>2. CASE ~Sets(m, x)
      <4>1. settings'[x] = settings[x]
        BY <1>2, <2>2, <2>3, <3>2 DEF Sets
      <4>2. LastOf(A, x, settings[x])
        BY <1>1, <2>3 DEF CarriedOut
      <4> HIDE DEF A
      <4> QED BY <3>2, <4>1, <4>2 DEF LastOf
    <3> QED BY <3>1, <3>2
  <2>4. \A n \in A \cup {m} : Outcome(n) = "ok"
    BY <1>1, <2>1 DEF CarriedOut
  <2>5. CarriedOut(Applied)'
    <3>1. \A n \in Applied' : Outcome(n)' = "ok"
      BY <1>3, <2>4
    <3>2. ASSUME NEW x \in DOMAIN Initial PROVE LastOf(Applied, x, settings[x])'
      <4> HIDE DEF A
      <4>1. Applied' = A \cup {m}
        BY DEF A
      <4>2. LastOf(A \cup {m}, x, settings'[x])
        BY <2>3, <3>2
      <4> QED BY <1>3, <4>1, <4>2 DEF LastOf, Before
    <3> QED BY <3>1, <3>2 DEF CarriedOut
  <2> QED BY <2>2, <2>5 DEF Effects
<1> QED BY <1>5, <1>6, <1>7

\* The option m is wrong, after all that come before it.
LEMMA Failed ==
  ASSUME Effects, status = "parsing", args' = args, NEW m \in Mentions, Wrong(m),
         Exit("error"), \A n \in Mentions : n \in Applied <=> Before(n, m)
  PROVE  Effects'
<1>1. /\ Mentions' = Mentions /\ \A n : Outcome(n)' = Outcome(n)
  BY MeaningKept
<1>2. Outcome(m) = "error"
  BY DEF Outcome, Wrong
<1>3. \A n \in Mentions : Before(n, m) => Outcome(n) = "ok"
  BY DEF Effects, CarriedOut
<1>4. status' = "error"
  BY DEF Exit
<1>5. EndsAt(m)'
  BY <1>1, <1>2, <1>3, <1>4 DEF EndsAt, Before
<1> QED BY <1>1, <1>4, <1>5 DEF Effects

\* Nothing is applied.
LEMMA NoEffect ==
  ASSUME Effects, args' = args, settings' = settings, status' = status,
         Applied' = Applied
  PROVE  Effects'
<1>1. status \in {"parsing", "parsed", "run"} => CarriedOut(Applied)'
  BY CarriedOutKept DEF Effects
<1>2. status \in {"help", "error"} => (NoFile \/ \E m \in Mentions : EndsAt(m))'
  BY MeaningKept, ArgsKept DEF Effects, NoFile, EndsAt, Before
<1> QED BY <1>1, <1>2 DEF Effects

-----------------------------------------------------------------------------
\* The loop goes past one letter, or past a word that is no option.
LEMMA ReadNext ==
  ASSUME args \in Seq(Words), i \in 1 .. N, j \in Letters(i), args' = args,
         \/ i' = i + 1 /\ j' = 1 /\ \A q \in Letters(i) : q <= j
         \/ i' = i /\ j' = j + 1
  PROVE  /\ << i, j >> \in Mentions
         /\ Read' = Read \cup {<< i, j >>} /\ << i, j >> \notin Read
         /\ \A n \in Mentions : n \in Read <=> Before(n, << i, j >>)
<1>1. << i, j >> \in Mentions /\ i \in Nat /\ j \in Nat
  BY MentionsFacts, LettersFacts, ArgsFacts
<1>2. ASSUME NEW n \in Mentions
      PROVE  Before(n, << i', j' >>) <=> Before(n, << i, j >>) \/ n = << i, j >>
  <2>1. /\ n[1] \in Nat /\ n[2] \in Nat \ {0} /\ n = << n[1], n[2] >>
        /\ n[2] \in Letters(n[1])
    BY <1>2, MentionsFacts
  <2>2. n = << i, j >> <=> n[1] = i /\ n[2] = j
    BY <2>1
  <2>3. CASE i' = i + 1 /\ j' = 1 /\ \A q \in Letters(i) : q <= j
    <3>1. n[1] = i => n[2] <= j
      BY <2>1, <2>3
    <3> QED BY <1>1, <2>1, <2>2, <2>3, <3>1 DEF Before
  <2>4. CASE i' = i /\ j' = j + 1
    BY <1>1, <2>1, <2>2, <2>4 DEF Before
  <2> QED BY <2>3, <2>4
<1>3. Read' = {n \in Mentions : Before(n, << i', j' >>)}
  BY MeaningKept DEF Read, Before
<1>4. Read = {n \in Mentions : Before(n, << i, j >>)}
  BY DEF Read
<1>5. ~Before(<< i, j >>, << i, j >>)
  BY <1>1 DEF Before
<1> QED BY <1>1, <1>2, <1>3, <1>4, <1>5

LEMMA ReadSkip ==
  ASSUME args \in Seq(Words), i \in 1 .. N, j \in Nat, Letters(i) = {}, args' = args,
         i' = i + 1, j' = 1
  PROVE  Read' = Read
<1>1. ASSUME NEW n \in Mentions
      PROVE  Before(n, << i', j' >>) <=> Before(n, << i, j >>)
  <2>1. n[1] \in Nat /\ n[2] \in Nat \ {0} /\ n[1] # i /\ i \in Nat
    BY <1>1, MentionsFacts, ArgsFacts
  <2> QED BY <2>1 DEF Before
<1>2. Read' = {n \in Mentions : Before(n, << i', j' >>)}
  BY MeaningKept DEF Read, Before
<1> QED BY <1>1, <1>2 DEF Read

\* The option that waits comes behind all that were applied, and its value is
\* the word that the loop looks at, if that is plain, or the default.
LEMMA WaitsFacts ==
  ASSUME IInv, OptionWaits, option # None, status = "parsing"
  PROVE  /\ Waits \in Mentions /\ OptionOf(Waits) = option /\ ~Wrong(Waits)
         /\ option.parameter
         /\ \A n \in Mentions : n \in Applied <=> Before(n, Waits)
         /\ Read = Applied \cup {Waits}
         /\ ValueOf(Waits) = IF i <= N /\ args[i].kind = "plain"
                             THEN Argument(args[i], 0) ELSE option.default
         /\ j = 1 /\ Applied \subseteq Mentions
<1>1. /\ args \in Seq(Words) /\ i \in 1 .. N + 1 /\ option.parameter /\ N \in Nat
      /\ j = 1
  BY ArgsFacts DEF IInv, TypeOK, Place
<1>2. /\ i > 1 /\ args[i - 1].kind \in {"long", "short"}
      /\ args[i - 1].kind = "long" => ~args[i - 1].valued
      /\ Waits \in Mentions /\ option = OptionOf(Waits)
  BY DEF OptionWaits
<1> DEFINE k == i - 1
           w == args[k]
<1>3. /\ k \in 1 .. N /\ k + 1 = i /\ i \in Nat /\ k \in Nat
      /\ Waits = << k, Last(k) >> /\ Waits[1] = k /\ Waits[2] = Last(k)
  BY <1>1, <1>2 DEF Waits
<1>4. ASSUME NEW n \in Mentions
      PROVE  (n \in Read /\ n # Waits) <=> Before(n, Waits)
  <2>1. /\ n[1] \in Nat /\ n[2] \in Nat \ {0} /\ n = << n[1], n[2] >>
        /\ n[2] \in Letters(n[1])
    BY <1>1, <1>4, MentionsFacts
  <2>2. n = Waits <=> n[1] = k /\ n[2] = Last(k)
    BY <1>3, <2>1
  <2>3. n[1] = k => n[2] <= Last(k)
    <3>1. CASE w.kind = "long"
      <4>1. Letters(k) \subseteq {1} /\ Last(k) = 1
        BY <3>1 DEF Letters, Last
      <4> QED BY <2>1, <4>1
    <3>2. CASE w.kind = "short"
      <4>1. Letters(k) \subseteq 1 .. Len(w.letters) /\ Len(w.letters) \in Nat
        BY <1>1, <1>3, <3>2, LettersFacts
      <4>2. Last(k) = Len(w.letters)
        BY <3>2 DEF Last
      <4> QED BY <2>1, <4>1, <4>2
    <3> QED BY <1>2, <3>1, <3>2
  <2>4. n \in Read <=> n[1] <= k
    BY <1>1, <1>3, <2>1 DEF Read, Before
  <2>5. Last(k) \in Nat
    BY <1>1, <1>2, <1>3, MentionsFacts
  <2> HIDE DEF k
  <2> QED BY <1>3, <2>1, <2>2, <2>3, <2>4, <2>5 DEF Before
<1>5. Applied = Read \ {Waits} /\ Read \subseteq Mentions
  BY DEF Applied, Read
<1>6. Waits \in Read
  BY <1>1, <1>2, <1>3 DEF Read, Before
<1>7. ValueOf(Waits) = IF i <= N /\ args[i].kind = "plain"
                       THEN Argument(args[i], 0) ELSE option.default
  <2>1. ~(w.kind = "long" /\ w.valued)
    BY <1>2
  <2>2. ~(w.kind = "short" /\ Waits[2] < Len(w.letters))
    <3>1. ASSUME w.kind = "short" PROVE ~(Waits[2] < Len(w.letters))
      <4>1. Waits[2] = Len(w.letters) /\ Len(w.letters) \in Nat
        BY <1>1, <1>3, <3>1, LettersFacts DEF Last
      <4> QED BY <4>1
    <3> QED BY <3>1
  <2> HIDE DEF k
  <2>3. args[Waits[1]] = w /\ Waits[1] + 1 = i
    BY <1>3
  <2> QED BY <1>1, <1>2, <2>1, <2>2, <2>3 DEF ValueOf
<1>8. ~Wrong(Waits)
  <2>1. option.known
    <3>1. OptionOf(Waits).parameter => OptionOf(Waits).known
      BY LookupFacts DEF OptionOf
    <3> QED BY <1>1, <1>2, <3>1
  <2> HIDE DEF k
  <2> QED BY <1>2, <1>3, <2>1 DEF Wrong, k
<1> QED BY <1>1, <1>2, <1>4, <1>5, <1>6, <1>7, <1>8

\* No argument is a null pointer.
LEMMA ArgumentGiven == \A w \in Words : \A n \in Nat : Argument(w, n) # None
<1>1. TAKE w \in Words
<1>2. TAKE n \in Nat
<1>3. Argument(w, n) \in [word : Words, at : Nat]
  BY DEF Argument
<1> QED BY <1>3, OptionsAssumption

\* What the actions of the loop share.
Meant == IInv /\ Effects /\ OptionWaits /\ AtEnd

\* An option that waited is applied, and none waits then.
LEMMA WaitingApplied ==
  ASSUME Meant, option # None, status = "parsing", option' = None, args' = args,
         Read' = Read, j' = 1, NEW a, Apply(option, a), Used(option, a) = ValueOf(Waits)
  PROVE  Effects' /\ OptionWaits' /\ AtEnd'
<1>1. /\ Waits \in Mentions /\ OptionOf(Waits) = option /\ ~Wrong(Waits)
      /\ \A n \in Mentions : n \in Applied <=> Before(n, Waits)
      /\ Read = Applied \cup {Waits} /\ Applied \subseteq Mentions
  BY WaitsFacts DEF Meant
<1>2. Applied' = Applied \cup {Waits}
  BY <1>1 DEF Applied
<1>3. Effects /\ args \in Seq(Words) /\ DOMAIN settings = DOMAIN Initial
  BY DEF Meant, IInv, TypeOK
<1>4. Effects'
  BY <1>1, <1>2, <1>3, Performed
<1>5. OptionWaits'
  BY DEF OptionWaits
<1>6. status' \in {"parsing", "help", "error"}
  BY DEF Apply, Exit, Set
<1> QED BY <1>4, <1>5, <1>6 DEF AtEnd

LEMMA NoArgumentMeant == Meant /\ NoArgument => Effects' /\ OptionWaits' /\ AtEnd'
<1> SUFFICES ASSUME Meant, NoArgument PROVE Effects' /\ OptionWaits' /\ AtEnd'
  OBVIOUS
<1>1. /\ Parsing /\ argv[i].kind # "plain" /\ option # None /\ Apply(option, None)
      /\ option' = None /\ UNCHANGED << args, i, j >>
  BY DEF NoArgument
<1>2. status = "parsing" /\ argv[i] = args[i]
  BY <1>1, WordRead DEF Meant
<1>3. Used(option, None) = ValueOf(Waits) /\ j = 1
  BY <1>1, <1>2, WaitsFacts DEF Meant, Used
<1>4. Read' = Read
  BY <1>1, MeaningKept DEF Read, Before
<1> QED BY <1>1, <1>2, <1>3, <1>4, WaitingApplied

LEMMA LastOptionMeant == Meant /\ LastOption => Effects' /\ OptionWaits' /\ AtEnd'
<1> SUFFICES ASSUME Meant, LastOption PROVE Effects' /\ OptionWaits' /\ AtEnd'
  OBVIOUS
<1>1. /\ status = "parsing" /\ i >= argc /\ option # None /\ Apply(option, None)
      /\ option' = None /\ UNCHANGED << args, i, j >>
  BY DEF LastOption
<1>2. ~(i <= N)
  <2>1. N \in Nat /\ i \in 1 .. N + 1 /\ argc = N + 1
    BY <1>1, ArgsFacts DEF Meant, IInv, TypeOK, Place
  <2> QED BY <1>1, <2>1
<1>3. Used(option, None) = ValueOf(Waits) /\ j = 1
  BY <1>1, <1>2, WaitsFacts DEF Meant, Used
<1>4. Read' = Read
  BY <1>1, MeaningKept DEF Read, Before
<1> QED BY <1>1, <1>3, <1>4, WaitingApplied

LEMMA TakeArgumentMeant == Meant /\ TakeArgument => Effects' /\ OptionWaits' /\ AtEnd'
<1> SUFFICES ASSUME Meant, TakeArgument PROVE Effects' /\ OptionWaits' /\ AtEnd'
  OBVIOUS
<1>1. /\ Parsing /\ argv[i].kind = "plain" /\ option # None
      /\ Apply(option, Argument(argv[i], 0))
      /\ option' = None /\ i' = i + 1 /\ j' = 1 /\ args' = args
  BY DEF TakeArgument, NextWord
<1>2. /\ status = "parsing" /\ argv[i] = args[i] /\ i \in 1 .. N /\ N \in Nat
      /\ args \in Seq(Words)
  BY <1>1, WordRead DEF Meant
<1>3. args[i] \in Words
  BY <1>2, ArgsFacts
<1>4. Used(option, Argument(args[i], 0)) = ValueOf(Waits) /\ j = 1
  <2>1. ValueOf(Waits) = Argument(args[i], 0) /\ j = 1
    BY <1>1, <1>2, WaitsFacts DEF Meant
  <2>2. Argument(args[i], 0) # None
    BY <1>3, ArgumentGiven
  <2> QED BY <2>1, <2>2 DEF Used
<1>5. Letters(i) = {}
  BY <1>1, <1>2, LettersFacts
<1>6. Read' = Read
  BY <1>1, <1>2, <1>4, <1>5, ReadSkip
<1> QED BY <1>1, <1>2, <1>4, <1>6, WaitingApplied

\* A word that is no option.
LEMMA WordPassed ==
  ASSUME Meant, Parsing, option = None, Letters(i) = {}, i' = i + 1, j' = 1,
         UNCHANGED << args, option, settings, status >>
  PROVE  Effects' /\ OptionWaits' /\ AtEnd'
<1>1. /\ status = "parsing" /\ i \in 1 .. N /\ args \in Seq(Words) /\ j \in Nat
  BY WordRead DEF Meant, IInv, TypeOK
<1>2. Read' = Read
  BY <1>1, ReadSkip
<1>3. Applied' = Applied
  BY <1>2 DEF Applied
<1>4. Effects'
  BY <1>3, NoEffect DEF Meant
<1> QED BY <1>1, <1>4 DEF OptionWaits, AtEnd

LEMMA EndOfOptionsMeant == Meant /\ EndOfOptions => Effects' /\ OptionWaits' /\ AtEnd'
<1> SUFFICES ASSUME Meant, EndOfOptions PROVE Effects' /\ OptionWaits' /\ AtEnd'
  OBVIOUS
<1>1. /\ Parsing /\ argv[i].kind = "end" /\ option = None /\ i' = i + 1 /\ j' = 1
      /\ UNCHANGED << args, option, settings, status >>
  BY DEF EndOfOptions, Option, NextWord
<1>2. args \in Seq(Words) /\ i \in 1 .. N /\ argv[i] = args[i]
  BY <1>1, WordRead DEF Meant
<1>3. Letters(i) = {}
  BY <1>1, <1>2, LettersFacts
<1> QED BY <1>1, <1>3, WordPassed

LEMMA KeepMeant == Meant /\ Keep => Effects' /\ OptionWaits' /\ AtEnd'
<1> SUFFICES ASSUME Meant, Keep PROVE Effects' /\ OptionWaits' /\ AtEnd'
  OBVIOUS
<1>1. /\ Parsing /\ (ended \/ (argv[i].kind = "plain" /\ option = None))
      /\ i' = i + 1 /\ j' = 1 /\ UNCHANGED << args, option, settings, status >>
  BY DEF Keep, NextWord
<1>2. args \in Seq(Words) /\ i \in 1 .. N /\ argv[i] = args[i] /\ (ended <=> Behind(i))
  BY <1>1, WordRead DEF Meant
<1>3. option = None
  BY <1>1 DEF Meant, IInv, Place
<1>4. Letters(i) = {}
  BY <1>1, <1>2, LettersFacts
<1> QED BY <1>1, <1>3, <1>4, WordPassed

\* The loop reads the option m: it is wrong, is applied, or waits for its argument.
LEMMA OptionRead ==
  ASSUME Meant, Parsing, ~ended, option = None, args' = args, j \in Letters(i),
         args[i].kind \in {"long", "short"},
         LET m == << i, j >>
             o == OptionOf(m)
         IN  \/ Wrong(m) /\ Exit("error") /\ option' = None
                /\ (j' > 1 => args'[i'].kind = "short")
             \/ /\ ~Wrong(m) /\ option' = None
                /\ (j' > 1 => args'[i'].kind = "short")
                /\ \E a : Apply(o, a) /\ (o.parameter => Used(o, a) = ValueOf(m))
                /\ \/ i' = i + 1 /\ j' = 1 /\ \A q \in Letters(i) : q <= j
                   \/ i' = i /\ j' = j + 1
             \/ /\ o.parameter /\ option' = o /\ UNCHANGED << settings, status >>
                /\ args[i].kind = "long" => ~args[i].valued
                /\ j = Last(i) /\ \A q \in Letters(i) : q <= j
                /\ i' = i + 1 /\ j' = 1
  PROVE  Effects' /\ OptionWaits' /\ AtEnd'
<1> DEFINE m == << i, j >>
           o == OptionOf(m)
<1>1. /\ args \in Seq(Words) /\ i \in 1 .. N /\ status = "parsing" /\ Effects
      /\ DOMAIN settings = DOMAIN Initial
  BY WordRead DEF Meant, IInv, TypeOK
<1>2. m \in Mentions /\ i \in Nat
  BY <1>1, MentionsFacts, ArgsFacts
<1>3. Applied = Read /\ Read = {n \in Mentions : Before(n, m)}
  BY DEF Applied, Read
<1>4. /\ \A n \in Mentions : n \in Applied <=> Before(n, m)
      /\ Applied \subseteq Mentions
  BY <1>3
<1> HIDE DEF m, o
<1>5. CASE /\ Wrong(m) /\ Exit("error") /\ option' = None
           /\ (j' > 1 => args'[i'].kind = "short")
  <2>1. Effects'
    BY <1>1, <1>2, <1>4, <1>5, Failed
  <2>2. OptionWaits' /\ AtEnd'
    BY <1>5 DEF OptionWaits, AtEnd, Exit
  <2> QED BY <2>1, <2>2
<1>6. ASSUME ~Wrong(m), option' = None, j' > 1 => args'[i'].kind = "short",
             NEW a, Apply(o, a), o.parameter => Used(o, a) = ValueOf(m),
             \/ i' = i + 1 /\ j' = 1 /\ \A q \in Letters(i) : q <= j
             \/ i' = i /\ j' = j + 1
      PROVE  Effects' /\ OptionWaits' /\ AtEnd'
  <2>1. Read' = Read \cup {m}
    BY <1>1, <1>6, ReadNext DEF m
  <2>2. Applied' = Applied \cup {m}
    BY <1>3, <1>6, <2>1 DEF Applied
  <2>3. Effects'
    BY <1>1, <1>2, <1>4, <1>6, <2>2, Performed DEF o
  <2>4. status' \in {"parsing", "help", "error"}
    BY <1>1, <1>6 DEF Apply, Exit, Set
  <2>5. OptionWaits' /\ AtEnd'
    BY <1>6, <2>4 DEF OptionWaits, AtEnd
  <2> QED BY <2>3, <2>5
<1>7. CASE /\ o.parameter /\ option' = o /\ UNCHANGED << settings, status >>
           /\ args[i].kind = "long" => ~args[i].valued
           /\ j = Last(i) /\ \A q \in Letters(i) : q <= j
           /\ i' = i + 1 /\ j' = 1
  <2>1. Read' = Read \cup {m} /\ m \notin Read
    BY <1>1, <1>7, ReadNext DEF m
  <2>2. option' # None
    BY <1>7, LookupFacts DEF o, OptionOf
  <2>3. i' - 1 = i /\ i' > 1
    BY <1>1, <1>2, <1>7
  <2>4. Waits' = m
    <3>1. Waits' = << i' - 1, IF args'[i' - 1].kind = "long" THEN 1
                              ELSE Len(args'[i' - 1].letters) >>
      BY DEF Waits, Last
    <3>2. args'[i' - 1] = args[i]
      BY <1>1, <2>3
    <3>3. Waits' = << i, Last(i) >>
      BY <2>3, <3>1, <3>2 DEF Last
    <3> QED BY <1>7, <3>3 DEF m
  <2>5. Applied' = Applied
    BY <1>3, <2>1, <2>2, <2>4 DEF Applied
  <2>6. Effects'
    BY <1>1, <1>7, <2>5, NoEffect
  <2>7. Waits' \in Mentions' /\ option' = OptionOf(Waits)'
    <3>1. OptionOf(Waits)' = OptionOf(m)
      BY <2>4 DEF OptionOf
    <3> QED BY <1>2, <1>7, <2>4, <3>1, MeaningKept DEF o
  <2>8. OptionWaits'
    BY <1>7, <2>3, <2>7 DEF OptionWaits
  <2>9. AtEnd'
    BY <1>1, <1>7 DEF AtEnd
  <2> QED BY <2>6, <2>8, <2>9
<1> QED BY <1>5, <1>6, <1>7 DEF m, o

LEMMA LongOptionMeant == Meant /\ LongOption => Effects' /\ OptionWaits' /\ AtEnd'
<1> SUFFICES ASSUME Meant, LongOption PROVE Effects' /\ OptionWaits' /\ AtEnd'
  OBVIOUS
<1> DEFINE w == args[i]
           o == LookupLong(w.name)
           v == IF w.valued THEN Argument(w, 0) ELSE None
           m == << i, j >>
<1>1. Parsing /\ ~ended /\ argv[i].kind = "long" /\ option = None
      /\ i' = i + 1 /\ j' = 1 /\ args' = args
  BY DEF LongOption, Option, NextWord
<1>2. /\ argv[i] = w /\ status = "parsing" /\ args \in Seq(Words) /\ i \in 1 .. N
      /\ ~Behind(i)
  BY <1>1, WordRead DEF Meant
<1>3. w.kind = "long" /\ w.valued \in BOOLEAN /\ w \in Words
  BY <1>1, <1>2, ArgsFacts, OptionsAssumption
<1>4. \/ /\ ~o.known \/ (w.valued /\ ~o.parameter)
         /\ Exit("error")
         /\ option' = None
      \/ /\ o.known /\ (w.valued <=> o.parameter)
         /\ Apply(o, v)
         /\ option' = None
      \/ /\ o.parameter /\ ~w.valued
         /\ option' = o
         /\ UNCHANGED << settings, status >>
  BY <1>1, <1>2 DEF LongOption
<1>5. j = 1 /\ Letters(i) = {1} /\ Last(i) = 1
  <2>1. ~(j > 1) /\ j \in Nat \ {0}
    BY <1>3 DEF Meant, OptionWaits, IInv, TypeOK
  <2> QED BY <1>2, <1>3, <2>1, LettersFacts DEF Last
<1>6. m[1] = i /\ OptionOf(m) = o /\ (Wrong(m) <=> ~o.known \/ (w.valued /\ ~o.parameter))
  BY <1>3 DEF OptionOf, Wrong
<1>7. w.valued /\ o.parameter => Used(o, v) = ValueOf(m)
  <2>1. Argument(w, 0) # None
    BY <1>3, ArgumentGiven
  <2>2. w.valued /\ o.parameter => ValueOf(m) = Argument(w, 0)
    BY <1>3, <1>6 DEF ValueOf
  <2> QED BY <2>1, <2>2 DEF Used
<1>8. j \in Letters(i) /\ (\A q \in Letters(i) : q <= j) /\ j = Last(i) /\ ~(j' > 1)
  BY <1>1, <1>5
<1>9. o.parameter \in BOOLEAN /\ o.known \in BOOLEAN
  BY LookupFacts
<1> HIDE DEF w, o, v, m
<1>10. \/ Wrong(m) /\ Exit("error") /\ option' = None
       \/ ~Wrong(m) /\ option' = None /\ \E a : Apply(o, a) /\ (o.parameter => Used(o, a) = ValueOf(m))
       \/ o.parameter /\ option' = o /\ UNCHANGED << settings, status >> /\ ~w.valued
  BY <1>3, <1>4, <1>6, <1>7, <1>9
<1> QED BY <1>1, <1>3, <1>6, <1>8, <1>10, OptionRead DEF w, m

LEMMA ShortOptionMeant == Meant /\ ShortOption => Effects' /\ OptionWaits' /\ AtEnd'
<1> SUFFICES ASSUME Meant, ShortOption PROVE Effects' /\ OptionWaits' /\ AtEnd'
  OBVIOUS
<1> DEFINE w == args[i]
           l == Len(w.letters)
           o == LookupShort(w.letters[j])
           m == << i, j >>
<1>1. Parsing /\ ~ended /\ argv[i].kind = "short" /\ option = None /\ args' = args
  BY DEF ShortOption, Option
<1>2. /\ argv[i] = w /\ status = "parsing" /\ args \in Seq(Words) /\ i \in 1 .. N
      /\ ~Behind(i) /\ w \in Words
  BY <1>1, WordRead, ArgsFacts DEF Meant
<1>3. /\ w.kind = "short" /\ DOMAIN w.letters = 1 .. l /\ l \in Nat \ {0}
      /\ Letters(i) \subseteq 1 .. l /\ Last(i) = l
  <2>1. w.kind = "short" /\ w.letters \in Seq(STRING)
    BY <1>1, <1>2, OptionsAssumption
  <2> QED BY <1>2, <2>1, LettersFacts DEF Last
<1>4. j \in 1 .. l /\ ReadLetter(w, j)
  <2>1. CASE j > 1
    BY <1>3, <2>1 DEF Meant, IInv, Place
  <2>2. CASE j = 1
    BY <1>3, <2>2 DEF ReadLetter
  <2> QED BY <2>1, <2>2 DEF Meant, IInv, TypeOK
<1>5. j \in Letters(i)
  BY <1>2, <1>3, <1>4, LettersFacts
<1>6. \/ /\ ~o.known
         /\ Exit("error")
         /\ UNCHANGED << i, j, option >>
      \/ /\ o.known /\ ~o.parameter
         /\ Apply(o, None)
         /\ IF j = l THEN NextWord ELSE i' = i /\ j' = j + 1
         /\ UNCHANGED option
      \/ /\ o.parameter /\ j # l
         /\ Apply(o, Argument(w, j + 1))
         /\ NextWord
         /\ UNCHANGED option
      \/ /\ o.parameter /\ j = l
         /\ option' = o
         /\ NextWord
         /\ UNCHANGED << settings, status >>
  BY <1>1, <1>2 DEF ShortOption
<1>7. /\ OptionOf(m) = o /\ (Wrong(m) <=> ~o.known) /\ (o.parameter => o.known)
      /\ o.known \in BOOLEAN /\ o.parameter \in BOOLEAN
  BY <1>3, LookupFacts DEF OptionOf, Wrong
<1>8. o.parameter /\ j # l => Used(o, Argument(w, j + 1)) = ValueOf(m)
  <2>1. Argument(w, j + 1) # None
    BY <1>2, <1>3, <1>4, ArgumentGiven
  <2>2. j # l => j < l
    BY <1>3, <1>4
  <2>3. o.parameter /\ j # l => ValueOf(m) = Argument(w, j + 1)
    BY <1>3, <1>7, <2>2 DEF ValueOf
  <2> QED BY <2>1, <2>3 DEF Used
<1>9. j = l => \A q \in Letters(i) : q <= j
  BY <1>3
<1>10. o.parameter => \A q \in Letters(i) : q <= j
  <2>1. ASSUME o.parameter, NEW q \in Letters(i), ~(q <= j) PROVE FALSE
    <3>1. j \in 1 .. q - 1
      BY <1>3, <1>4, <2>1
    <3>2. ReadLetter(w, q)
      BY <1>2, <1>3, <2>1 DEF Letters
    <3> QED BY <2>1, <3>1, <3>2 DEF ReadLetter
  <2> QED BY <2>1
<1> HIDE DEF w, l, o, m
<1>11. CASE ~o.known /\ Exit("error") /\ UNCHANGED << i, j, option >>
  <2>1. Wrong(m) /\ option' = None /\ args'[i'].kind = "short"
    BY <1>1, <1>3, <1>7, <1>11 DEF w
  <2> QED BY <1>1, <1>3, <1>5, <1>11, <2>1, OptionRead DEF w, m
<1>12. CASE /\ o.known /\ ~o.parameter /\ Apply(o, None) /\ UNCHANGED option
            /\ IF j = l THEN NextWord ELSE i' = i /\ j' = j + 1
  <2>1. /\ ~Wrong(m) /\ option' = None
        /\ \E a : Apply(o, a) /\ (o.parameter => Used(o, a) = ValueOf(m))
    BY <1>1, <1>7, <1>12
  <2>2. /\ j' > 1 => args'[i'].kind = "short"
        /\ \/ i' = i + 1 /\ j' = 1 /\ \A q \in Letters(i) : q <= j
           \/ i' = i /\ j' = j + 1
    <3>1. CASE j = l
      BY <1>9, <1>12, <3>1 DEF NextWord
    <3>2. CASE j # l
      BY <1>1, <1>3, <1>12, <3>2 DEF w
    <3> QED BY <3>1, <3>2
  <2> QED BY <1>1, <1>3, <1>5, <1>7, <2>1, <2>2, OptionRead DEF w, m
<1>13. CASE /\ o.parameter /\ j # l /\ Apply(o, Argument(w, j + 1)) /\ NextWord
            /\ UNCHANGED option
  <2>1. /\ ~Wrong(m) /\ option' = None
        /\ \E a : Apply(o, a) /\ (o.parameter => Used(o, a) = ValueOf(m))
    BY <1>1, <1>7, <1>8, <1>13
  <2>2. i' = i + 1 /\ j' = 1 /\ ~(j' > 1) /\ \A q \in Letters(i) : q <= j
    BY <1>10, <1>13 DEF NextWord
  <2> QED BY <1>1, <1>3, <1>5, <1>7, <2>1, <2>2, OptionRead DEF w, m
<1>14. CASE /\ o.parameter /\ j = l /\ option' = o /\ NextWord
            /\ UNCHANGED << settings, status >>
  <2>1. i' = i + 1 /\ j' = 1 /\ j = Last(i) /\ \A q \in Letters(i) : q <= j
    BY <1>3, <1>9, <1>14 DEF NextWord
  <2>2. ~(w.kind = "long")
    BY <1>3
  <2> QED BY <1>1, <1>3, <1>5, <1>7, <1>14, <2>1, <2>2, OptionRead DEF w, m
<1> QED BY <1>6, <1>11, <1>12, <1>13, <1>14

LEMMA CleanMeant == Meant /\ Clean => Effects' /\ OptionWaits' /\ AtEnd'
<1> SUFFICES ASSUME Meant, Clean PROVE Effects' /\ OptionWaits' /\ AtEnd'
  OBVIOUS
<1>1. /\ status = "parsing" /\ i >= argc /\ option = None /\ status' = "parsed"
      /\ UNCHANGED << args, i, j, option, settings >>
  BY DEF Clean, walk
<1>2. i = N + 1 /\ N' = N
  <2>1. N \in Nat /\ i \in 1 .. N + 1 /\ argc = N + 1
    BY <1>1, ArgsFacts DEF Meant, IInv, TypeOK, Place
  <2> QED BY <1>1, <2>1, ArgsKept
<1>3. Applied' = Applied
  BY <1>1, MeaningKept DEF Applied, Read, Before
<1>4. Effects'
  <2>1. CarriedOut(Applied)
    BY <1>1 DEF Meant, Effects
  <2>2. CarriedOut(Applied)'
    BY <1>1, <1>3, <2>1, CarriedOutKept
  <2> QED BY <1>1, <2>2 DEF Effects
<1>5. OptionWaits'
  BY <1>1 DEF Meant, OptionWaits
<1>6. AtEnd'
  BY <1>1, <1>2 DEF AtEnd
<1> QED BY <1>4, <1>5, <1>6

\* All options were applied when the loop is over.
LEMMA AllApplied ==
  ASSUME args \in Seq(Words), option = None, i = N + 1
  PROVE  Applied = Mentions
<1>1. \A m \in Mentions : Before(m, << i, j >>)
  BY MentionsFacts, ArgsFacts DEF Before
<1> QED BY <1>1 DEF Applied, Read

LEMMA MainMeant == Meant /\ Main => Effects' /\ OptionWaits' /\ AtEnd'
<1> SUFFICES ASSUME Meant, Main PROVE Effects' /\ OptionWaits' /\ AtEnd'
  OBVIOUS
<1>1. /\ status = "parsed" /\ status' = IF argc < 2 THEN "help" ELSE "run"
      /\ UNCHANGED << args, i, j, option, settings >>
  BY DEF Main, walk
<1>2. /\ args \in Seq(Words) /\ option = None /\ i = N + 1 /\ argc = Slot(N + 1)
      /\ N \in Nat /\ N' = N
  BY <1>1, ArgsFacts, ArgsKept DEF Meant, IInv, TypeOK, AtEnd, WordsKept
<1>3. Applied = Mentions /\ Applied' = Applied
  BY <1>1, <1>2, AllApplied, MeaningKept DEF Applied, Read, Before
<1>4. CarriedOut(Applied)
  BY <1>1 DEF Meant, Effects
<1>5. OptionWaits'
  BY <1>1, <1>2 DEF Meant, OptionWaits
<1>6. CASE argc < 2
  <2>1. \A k \in 1 .. N : ~Positional(k)
    <3> SUFFICES ASSUME NEW k \in 1 .. N, Positional(k) PROVE FALSE
      OBVIOUS
    <3>1. Slot(k) < Slot(N + 1) /\ Slot(k) \in 1 .. k
      BY <1>2, SlotGrows, SlotNext
    <3>2. Slot(N + 1) \in 1 .. N + 1
      BY <1>2, SlotNext
    <3> QED BY <1>2, <1>6, <3>1, <3>2
  <2>2. \A m \in Mentions : Outcome(m) = "ok"
    BY <1>3, <1>4 DEF CarriedOut
  <2>3. NoFile'
    BY <1>1, <1>2, <1>6, <2>1, <2>2, MeaningKept, ArgsKept DEF NoFile
  <2> QED BY <1>1, <1>5, <1>6, <2>3 DEF Effects, AtEnd
<1>7. CASE ~(argc < 2)
  <2>1. \E k \in 1 .. N : Positional(k)
    <3> SUFFICES ASSUME \A k \in 1 .. N : ~Positional(k) PROVE FALSE
      OBVIOUS
    <3>1. {m \in 1 .. (N + 1) - 1 : Positional(m)} = {}
      BY <1>2
    <3>2. Slot(N + 1) = 1
      BY <3>1, FS_EmptySet DEF Slot
    <3> QED BY <1>2, <1>7, <3>2
  <2>2. CarriedOut(Applied)'
    BY <1>1, <1>3, <1>4, CarriedOutKept
  <2>3. AtEnd'
    BY <1>1, <1>2, <1>7, <2>1, ArgsKept DEF AtEnd
  <2> QED BY <1>1, <1>5, <1>7, <2>2, <2>3 DEF Effects
<1> QED BY <1>6, <1>7

LEMMA StutterMeant == Meant /\ UNCHANGED vars => Effects' /\ OptionWaits' /\ AtEnd'
<1> SUFFICES ASSUME Meant, UNCHANGED vars PROVE Effects' /\ OptionWaits' /\ AtEnd'
  OBVIOUS
<1>1. UNCHANGED << args, i, j, option, settings, status >>
  BY DEF vars
<1>2. Waits' = Waits /\ N' = N
  BY <1>1, ArgsKept DEF Waits, Last
<1>3. Applied' = Applied
  BY <1>1, <1>2, MeaningKept DEF Applied, Read, Before
<1>4. Effects'
  BY <1>1, <1>3, NoEffect DEF Meant
<1>5. OptionWaits'
  <2>1. Mentions' = Mentions
    BY <1>1, MeaningKept
  <2>2. OptionOf(Waits)' = OptionOf(Waits)
    BY <1>1, <1>2 DEF OptionOf
  <2> QED BY <1>1, <1>2, <2>1, <2>2 DEF Meant, OptionWaits
<1>6. AtEnd'
  BY <1>1, <1>2, ArgsKept DEF Meant, AtEnd
<1> QED BY <1>4, <1>5, <1>6

LEMMA InitMeant == Init => Effects /\ OptionWaits /\ AtEnd
<1> SUFFICES ASSUME Init PROVE Effects /\ OptionWaits /\ AtEnd
  OBVIOUS
<1>1. /\ i = 1 /\ j = 1 /\ option = None /\ settings = Initial /\ status = "parsing"
      /\ args \in Seq(Words)
  BY InitOK DEF Init, IInv, TypeOK
<1>2. \A m : m \notin Applied
  <2>1. \A m \in Mentions : ~Before(m, << 1, 1 >>)
    BY <1>1, MentionsFacts DEF Before
  <2> QED BY <1>1, <2>1 DEF Applied, Read
<1>3. Effects
  BY <1>1, <1>2 DEF Effects, CarriedOut, LastOf
<1> QED BY <1>1, <1>3 DEF OptionWaits, AtEnd

LEMMA MeantAlways == Spec => []Meant
<1>1. IInv /\ [Next]_vars => IInv'
  BY InvStep
<1>2. Meant /\ [Next]_vars => Meant'
  <2> SUFFICES ASSUME Meant, [Next]_vars PROVE Effects' /\ OptionWaits' /\ AtEnd'
    BY <1>1 DEF Meant
  <2>1. CASE Next
    BY <2>1, NoArgumentMeant, EndOfOptionsMeant, LongOptionMeant, ShortOptionMeant,
       TakeArgumentMeant, KeepMeant, LastOptionMeant, CleanMeant, MainMeant DEF Next
  <2>2. CASE UNCHANGED vars
    BY <2>2, StutterMeant
  <2> QED BY <2>1, <2>2
<1>3. Init => Meant
  BY InitOK, InitMeant DEF Meant
<1> QED BY <1>2, <1>3, PTL DEF Spec

\* A variable has the value that the last option on the command line gives it
\* (options.c 87-188), for every list of options and every command line.
THEOREM LastDecides == Spec => []LastOneDecides
<1>1. ASSUME Meant, status \in {"parsed", "run"}, NEW a \in DOMAIN Initial
      PROVE  LET ms == {m \in Mentions : OptionOf(m).known /\ OptionOf(m).adr = a}
             IN  settings[a] = IF ms = {} THEN Initial[a]
                               ELSE ValueOf(CHOOSE m \in ms : \A n \in ms : n = m \/ Before(n, m))
  <2> DEFINE ms == {m \in Mentions : OptionOf(m).known /\ OptionOf(m).adr = a}
  <2>1. args \in Seq(Words) /\ option = None /\ i = N + 1
    BY <1>1 DEF Meant, IInv, TypeOK, AtEnd
  <2>2. Applied = Mentions /\ CarriedOut(Mentions)
    BY <1>1, <2>1, AllApplied DEF Meant, Effects
  <2>3. LastOf(Mentions, a, settings[a])
    BY <1>1, <2>2 DEF CarriedOut
  <2>4. \A m \in Mentions : m \in ms <=> Sets(m, a)
    BY DEF Sets
  <2>5. ms \subseteq Mentions
    OBVIOUS
  <2> HIDE DEF ms
  <2>6. CASE ms = {}
    <3>1. \A m \in Mentions : ~Sets(m, a)
      BY <2>4, <2>6
    <3> QED BY <2>3, <2>6, <3>1 DEF LastOf, ms
  <2>7. CASE ms # {}
    <3>1. PICK m \in ms : settings[a] = ValueOf(m) /\ \A n \in ms : n = m \/ Before(n, m)
      <4>1. ~(\A m \in Mentions : ~Sets(m, a))
        BY <2>4, <2>5, <2>7
      <4>2. PICK m \in Mentions : /\ Sets(m, a) /\ settings[a] = ValueOf(m)
                                  /\ \A n \in Mentions : Sets(n, a) => n = m \/ Before(n, m)
        BY <2>3, <4>1 DEF LastOf
      <4> QED BY <2>4, <2>5, <4>2
    <3> DEFINE x == CHOOSE y \in ms : \A n \in ms : n = y \/ Before(n, y)
    <3>2. x \in ms /\ \A n \in ms : n = x \/ Before(n, x)
      BY <3>1
    <3> HIDE DEF x
    <3>3. x = m
      BY <2>1, <2>5, <3>1, <3>2, BeforeOrder
    <3> QED BY <2>7, <3>1, <3>3 DEF x, ms
  <2> QED BY <2>6, <2>7
<1>2. Meant => LastOneDecides
  BY <1>1 DEF LastOneDecides
<1> QED BY <1>2, MeantAlways, PTL

\* The program ends at the first option that is wrong or asks for help, and runs
\* only if there is none and a file is named (options.c 87-188, makeseed.c 9-55).
THEOREM EndsAtFirst == Spec => []FirstExit
<1>1. ASSUME Meant PROVE FirstExit
  <2> DEFINE bad == {m \in Mentions : Outcome(m) # "ok"}
             first == CHOOSE m \in bad : \A n \in bad : n = m \/ Before(m, n)
  <2>1. args \in Seq(Words)
    BY <1>1 DEF Meant, IInv, TypeOK
  <2>2. status \in {"parsed", "run"} => bad = {}
    <3>1. ASSUME status \in {"parsed", "run"} PROVE \A m \in Mentions : Outcome(m) = "ok"
      <4>1. option = None /\ i = N + 1
        BY <1>1, <3>1 DEF Meant, AtEnd
      <4> QED BY <1>1, <2>1, <3>1, <4>1, AllApplied DEF Meant, Effects, CarriedOut
    <3> QED BY <3>1
  <2>3. status = "run" => \E k \in 1 .. N : Positional(k)
    BY <1>1 DEF Meant, AtEnd
  <2>4. ASSUME status \in {"help", "error"}
        PROVE  /\ status = IF bad # {} THEN Outcome(first) ELSE "help"
               /\ bad = {} => \A k \in 1 .. N : ~Positional(k)
    <3>1. CASE NoFile
      <4>1. bad = {}
        BY <3>1 DEF NoFile
      <4> HIDE DEF bad, first
      <4> QED BY <3>1, <4>1 DEF NoFile
    <3>2. ASSUME NEW m \in Mentions, EndsAt(m)
          PROVE  bad # {} /\ Outcome(first) = status
      <4>1. m \in bad /\ bad \subseteq Mentions
        BY <2>4, <3>2 DEF EndsAt
      <4>2. \A n \in bad : n = m \/ Before(m, n)
        BY <2>1, <3>2, BeforeOrder DEF EndsAt
      <4> HIDE DEF bad
      <4>3. first \in bad /\ \A n \in bad : n = first \/ Before(first, n)
        BY <4>1, <4>2
      <4> HIDE DEF first
      <4>4. first = m
        BY <2>1, <4>1, <4>2, <4>3, BeforeOrder
      <4> QED BY <3>2, <4>1, <4>4 DEF EndsAt
    <3> HIDE DEF bad, first
    <3> QED BY <1>1, <2>4, <3>1, <3>2 DEF Meant, Effects
  <2> HIDE DEF bad, first
  <2>5. /\ status \in {"help", "error"} => status = IF bad # {} THEN Outcome(first) ELSE "help"
        /\ status = "help" /\ bad = {} => \A k \in 1 .. N : ~Positional(k)
    BY <2>4
  <2> QED BY <2>2, <2>3, <2>5 DEF FirstExit, bad, first
<1> QED BY <1>1, MeantAlways, PTL
================================================================================
