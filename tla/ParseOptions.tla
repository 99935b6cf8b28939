----------------------------- MODULE ParseOptions -----------------------------
(***************************************************************************)
(* The command line of makeseed: parse_options (options.c), which applies  *)
(* the options and moves the other words to the front of argv, in place,   *)
(* and what main (makeseed.c) does with the rest.                          *)
(*                                                                         *)
(* A word of the command line is                                           *)
(*     plain   no option: without a dash in front, or only a dash          *)
(*     end     "--"                                                        *)
(*     long    "--name" or, if valued, "--name=value"                      *)
(*     short   "-" and letters                                             *)
(* Left out are the wording of messages, the characters of words, and the  *)
(* zero that find_and_null_eq writes over an "=", which no one reads.       *)
(***************************************************************************)
EXTENDS Integers, Sequences, FiniteSets

CONSTANTS
    Table,      \* the options, as in the list made by OPTIONS
    Words,      \* the words on command lines
    MaxWords,   \* bound: words on a command line, the program name not counted
    Initial,    \* the variables that options set, before they do
    None        \* a null pointer

\* An argument of an option: the part of the word w from letter number at on, or
\* for 0 the whole word, of "--name=value" what is behind the "=".
Argument(w, at) == [word |-> w, at |-> at]

\* An option that is not in the table.
Unknown == [known |-> FALSE, parameter |-> FALSE]

ASSUME OptionsAssumption ==
    /\ Table \in Seq([known : {TRUE}, shortopt : STRING, longopt : STRING,
                      parameter : BOOLEAN, callback : BOOLEAN, adr : DOMAIN Initial,
                      default : {None} \cup STRING, flag_value : STRING])
    /\ \A w \in Words :
        /\ w.kind \in {"plain", "end", "long", "short"}
        /\ w.kind = "long" => w.name \in STRING /\ w.valued \in BOOLEAN
        /\ w.kind = "short" => w.letters \in Seq(STRING) /\ w.letters # << >>
    /\ MaxWords \in Nat
    /\ None \notin Words /\ None \notin [word : Words, at : Nat]
    /\ \A k \in DOMAIN Table : Table[k] # None

VARIABLES
    args,       \* history: the command line as it was
    argv, argc, \* the command line; argc counts the program name
    i,          \* the word that is looked at
    j,          \* the letter in it
    c,          \* where the next word goes that is kept
    option,     \* o, the option that waits for its argument, or None
    ended,      \* "--" was read
    settings,   \* the variables that options set
    status      \* "parsing", "parsed", "run", or the exit of the program:
                \* "help" for status 0, "error" for 1

vars == << args, argv, argc, i, j, c, option, ended, settings, status >>
walk == << i, j, c, option, ended >>

First(P) ==
    LET first == {k \in P : \A l \in P : k <= l}
    IN  IF first = {} THEN Unknown ELSE Table[CHOOSE k \in first : TRUE]

LookupShort(x) == First({k \in DOMAIN Table : Table[k].shortopt = x})
LookupLong(x) == First({k \in DOMAIN Table : Table[k].longopt = x})

Init ==
    /\ args \in UNION {[1 .. n -> Words] : n \in 0 .. MaxWords}
    /\ argv = args
    /\ argc = Len(args) + 1
    /\ i = 1 /\ j = 1 /\ c = 1
    /\ option = None
    /\ ended = FALSE
    /\ settings = Initial
    /\ status = "parsing"

\* The argument that apply_option uses: the one that was given or the default.
Used(o, a) == IF a = None /\ o.parameter THEN o.default ELSE a

Exit(s) == status' = s /\ UNCHANGED settings

Set(o, v) == settings' = [settings EXCEPT ![o.adr] = v] /\ UNCHANGED status

\* apply_option.  The callbacks of makeseed are all help, which exits.
Apply_bugNoExit(o, a) ==
    IF o.callback THEN Exit("help")
    ELSE Set(o, IF o.parameter THEN Used(o, a) ELSE o.flag_value)

Apply(o, a) ==
    IF o.parameter /\ Used(o, a) = None THEN Exit("error")
    ELSE IF o.callback THEN Exit("help")
    ELSE Set(o, IF o.parameter THEN Used(o, a) ELSE o.flag_value)

Parsing == status = "parsing" /\ i < argc

NextWord == i' = i + 1 /\ j' = 1

Option(kind) == Parsing /\ ~ended /\ argv[i].kind = kind /\ option = None

\* A word with a dash while an option waits: it gets no argument.
NoArgument ==
    /\ Parsing /\ ~ended /\ argv[i].kind # "plain" /\ option # None
    /\ Apply(option, None)
    /\ option' = None
    /\ UNCHANGED << args, argv, argc, i, j, c, ended >>

EndOfOptions ==
    /\ Option("end")
    /\ ended' = TRUE
    /\ NextWord
    /\ UNCHANGED << args, argv, argc, c, option, settings, status >>

LongOption ==
    /\ Option("long")
    /\ LET o == LookupLong(argv[i].name)
           v == IF argv[i].valued THEN Argument(argv[i], 0) ELSE None
       IN  \/ /\ ~o.known \/ (argv[i].valued /\ ~o.parameter)
              /\ Exit("error")
              /\ UNCHANGED option
           \/ /\ o.known /\ (argv[i].valued <=> o.parameter)
              /\ Apply(o, v)
              /\ UNCHANGED option
           \/ /\ o.parameter /\ ~argv[i].valued
              /\ option' = o
              /\ UNCHANGED << settings, status >>
    /\ NextWord
    /\ UNCHANGED << args, argv, argc, c, ended >>

\* One turn of the loop over the letters of a word.  A parameter takes the rest
\* of the word as its argument, or waits if there is none.
ShortOption_bugRest ==
    /\ Option("short")
    /\ LET o == LookupShort(argv[i].letters[j])
           last == j = Len(argv[i].letters)
       IN  \/ /\ ~o.known
              /\ Exit("error")
              /\ UNCHANGED << i, j, option >>
           \/ /\ o.known /\ ~o.parameter
              /\ Apply(o, None)
              /\ IF last THEN NextWord ELSE i' = i /\ j' = j + 1
              /\ UNCHANGED option
           \/ /\ o.parameter /\ ~last
              /\ Apply(o, Argument(argv[i], j))
              /\ NextWord
              /\ UNCHANGED option
           \/ /\ o.parameter /\ last
              /\ option' = o
              /\ NextWord
              /\ UNCHANGED << settings, status >>
    /\ UNCHANGED << args, argv, argc, c, ended >>

ShortOption ==
    /\ Option("short")
    /\ LET o == LookupShort(argv[i].letters[j])
           last == j = Len(argv[i].letters)
       IN  \/ /\ ~o.known
              /\ Exit("error")
              /\ UNCHANGED << i, j, option >>
           \/ /\ o.known /\ ~o.parameter
              /\ Apply(o, None)
              /\ IF last THEN NextWord ELSE i' = i /\ j' = j + 1
              /\ UNCHANGED option
           \/ /\ o.parameter /\ ~last
              /\ Apply(o, Argument(argv[i], j + 1))
              /\ NextWord
              /\ UNCHANGED option
           \/ /\ o.parameter /\ last
              /\ option' = o
              /\ NextWord
              /\ UNCHANGED << settings, status >>
    /\ UNCHANGED << args, argv, argc, c, ended >>

\* A plain word behind an option that waits.
TakeArgument ==
    /\ Parsing /\ ~ended /\ argv[i].kind = "plain" /\ option # None
    /\ Apply(option, Argument(argv[i], 0))
    /\ option' = None
    /\ NextWord
    /\ UNCHANGED << args, argv, argc, c, ended >>

\* Any other plain word, and every word behind "--".
Keep_bugGap ==
    /\ Parsing /\ (ended \/ (argv[i].kind = "plain" /\ option = None))
    /\ argv' = [argv EXCEPT ![c] = argv[i]]
    /\ c' = i + 1
    /\ NextWord
    /\ UNCHANGED << args, argc, option, ended, settings, status >>

Keep ==
    /\ Parsing /\ (ended \/ (argv[i].kind = "plain" /\ option = None))
    /\ argv' = [argv EXCEPT ![c] = argv[i]]
    /\ c' = c + 1
    /\ NextWord
    /\ UNCHANGED << args, argc, option, ended, settings, status >>

\* An option that waits at the end of the command line.
LastOption ==
    /\ status = "parsing" /\ i >= argc /\ option # None
    /\ Apply(option, None)
    /\ option' = None
    /\ UNCHANGED << args, argv, argc, i, j, c, ended >>

\* "Clean argument vector."
Clean ==
    /\ status = "parsing" /\ i >= argc /\ option = None
    /\ argv' = [k \in DOMAIN argv |-> IF k >= c /\ k < argc THEN None ELSE argv[k]]
    /\ argc' = c
    /\ status' = "parsed"
    /\ UNCHANGED << args, walk, settings >>

\* main after parse_options: without a file there is only help.
Main ==
    /\ status = "parsed"
    /\ status' = IF argc < 2 THEN "help" ELSE "run"
    /\ UNCHANGED << args, argv, argc, walk, settings >>

Next ==
    \/ NoArgument \/ EndOfOptions \/ LongOption \/ ShortOption
    \/ TakeArgument \/ Keep \/ LastOption \/ Clean \/ Main

Spec == Init /\ [][Next]_vars
-------------------------------------------------------------------------------
(* What the words mean: the reference that the properties compare with. *)

N == Len(args)

\* Behind the first "--".
Behind(k) == \E m \in 1 .. k - 1 : args[m].kind = "end"

\* The letter p of the word w is read as an option: no parameter before it has
\* taken it.
ReadLetter(w, p) == \A q \in 1 .. p - 1 : ~LookupShort(w.letters[q]).parameter

\* The option that w leaves waiting for the next word, or Unknown.
Waiting(w) ==
    IF w.kind = "long" /\ ~w.valued THEN LookupLong(w.name)
    ELSE IF w.kind = "short" /\ ReadLetter(w, Len(w.letters))
         THEN LookupShort(w.letters[Len(w.letters)])
    ELSE Unknown

Positional(k) ==
    \/ Behind(k)
    \/ args[k].kind = "plain" /\ (k > 1 => ~Waiting(args[k - 1]).parameter)

\* Where the word k belongs, if it is positional.
Slot(k) == 1 + Cardinality({m \in 1 .. k - 1 : Positional(m)})

\* The letters of the word k that are read as options, 1 for a long option.
Letters(k) ==
    LET w == args[k]
    IN  IF Behind(k) THEN {}
        ELSE IF w.kind = "long" THEN {1}
        ELSE IF w.kind = "short" THEN {p \in DOMAIN w.letters : ReadLetter(w, p)}
        ELSE {}

\* The options on the command line, by word and letter.
Mentions == UNION {{<< k, p >> : p \in Letters(k)} : k \in 1 .. N}

Before(m, n) == m[1] < n[1] \/ (m[1] = n[1] /\ m[2] < n[2])

OptionOf(m) ==
    LET w == args[m[1]]
    IN  IF w.kind = "long" THEN LookupLong(w.name) ELSE LookupShort(w.letters[m[2]])

\* What the option m gets: the value behind "=", the rest of the word or the next
\* word, or its default.
ValueOf(m) ==
    LET w == args[m[1]]
        o == OptionOf(m)
        next == m[1] + 1
        given == IF w.kind = "long" /\ w.valued THEN Argument(w, 0)
                 ELSE IF w.kind = "short" /\ m[2] < Len(w.letters)
                      THEN Argument(w, m[2] + 1)
                 ELSE IF next <= N /\ args[next].kind = "plain"
                      THEN Argument(args[next], 0)
                 ELSE o.default
    IN  IF o.parameter THEN given ELSE o.flag_value

Outcome(m) ==
    LET w == args[m[1]]
        o == OptionOf(m)
    IN  IF \/ ~o.known
           \/ w.kind = "long" /\ w.valued /\ ~o.parameter
           \/ o.parameter /\ ValueOf(m) = None THEN "error"
        ELSE IF o.callback THEN "help"
        ELSE "ok"
-------------------------------------------------------------------------------
(* Properties *)

\* Types; the words that are kept never overtake the word that is read.
TypeOK ==
    /\ args \in Seq(Words)
    /\ argv \in [1 .. N -> Words \cup {None}]
    /\ i \in 1 .. N + 1
    /\ c \in 1 .. i
    /\ argc \in {N + 1, c}
    /\ j \in Nat \ {0}
    /\ option = None \/ option.parameter
    /\ ended \in BOOLEAN
    /\ DOMAIN settings = DOMAIN Initial
    /\ status \in {"parsing", "parsed", "run", "help", "error"}

\* "argc and argv ... will be modified to hold only the positional arguments"
\* (options.h): all of them, in order, and nothing else.  The words are moved
\* within the array that is still being read, so before that the words not yet
\* read are as they were.
WordsKept ==
    /\ \A k \in i .. N : argv[k] = args[k]
    /\ \A k \in 1 .. i - 1 : Positional(k) => argv[Slot(k)] = args[k]
    /\ status \in {"parsed", "run"} =>
        /\ i = N + 1
        /\ argc = Slot(N + 1)
        /\ \A k \in argc .. N : argv[k] = None

\* The last option that sets a variable decides (makeseed.c: -e "turns off fast
\* mode"), with the argument that belongs to it, wherever that was written.
LastOneDecides ==
    status \in {"parsed", "run"} =>
        \A a \in DOMAIN Initial :
            LET ms == {m \in Mentions : OptionOf(m).known /\ OptionOf(m).adr = a}
            IN  settings[a] = IF ms = {} THEN Initial[a]
                              ELSE ValueOf(CHOOSE m \in ms : \A n \in ms : n = m \/ Before(n, m))

\* The program exits at the first option that is wrong or asks for help, and runs
\* only if there is none and a file is named.
FirstExit ==
    LET bad == {m \in Mentions : Outcome(m) # "ok"}
        first == CHOOSE m \in bad : \A n \in bad : n = m \/ Before(m, n)
    IN  /\ status \in {"parsed", "run"} => bad = {}
        /\ status = "run" => \E k \in 1 .. N : Positional(k)
        /\ status \in {"help", "error"} =>
            status = IF bad # {} THEN Outcome(first) ELSE "help"
        /\ status = "help" /\ bad = {} => \A k \in 1 .. N : ~Positional(k)
===============================================================================
