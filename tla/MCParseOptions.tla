--------------------------- MODULE MCParseOptions ---------------------------
(***************************************************************************)
(* Instance of ParseOptions for TLC: the options of makeseed, and one each *)
(* of the kinds that options.h offers besides: "file", which needs an      *)
(* argument, and "dir", which has a default.                               *)
(***************************************************************************)
EXTENDS ParseOptions, TLC

OptionRecord(s, l, adr, value) ==
    [known |-> TRUE, shortopt |-> s, longopt |-> l, parameter |-> FALSE,
     callback |-> FALSE, adr |-> adr, default |-> None, flag_value |-> value]

Parameter(s, l, adr, default) ==
    [OptionRecord(s, l, adr, "") EXCEPT !.parameter = TRUE, !.default = default]

Help(s, l) == [OptionRecord(s, l, "fast", "") EXCEPT !.callback = TRUE]

MCTable == << OptionRecord("f", "fast", "fast", "1"),
              OptionRecord("e", "engineeringdata", "fast", "0"),
              Help("h", "help"), Help("?", "?"),
              Parameter("o", "file", "file", None),
              Parameter("d", "dir", "dir", ".") >>

MCInitial == [fast |-> "0", file |-> None, dir |-> None]

Long(name, valued) == [kind |-> "long", name |-> name, valued |-> valued]
Short(letters) == [kind |-> "short", letters |-> letters]

MCWords ==
    { [kind |-> "plain", text |-> "a"], [kind |-> "plain", text |-> "b"],
      [kind |-> "end"],
      Long("fast", FALSE), Long("fast", TRUE), Long("file", FALSE),
      Long("file", TRUE), Long("dir", FALSE), Long("none", FALSE),
      Short(<< "e" >>), Short(<< "o" >>), Short(<< "f", "e" >>),
      Short(<< "f", "d" >>), Short(<< "d", "f" >>), Short(<< "e", "h" >>),
      Short(<< "f", "x" >>) }
=============================================================================
