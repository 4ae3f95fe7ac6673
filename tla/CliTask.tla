------------------------------- MODULE CliTask -------------------------------
(***************************************************************************)
(* The CLI: the reader loop of cliThread (cli_task_cc1310.c), and the      *)
(* parser, dispatch and help of cli_core.c.                                *)
(*                                                                         *)
(*   - A character is a blank, a line end or a letter; the words <<"h">>   *)
(*     and <<"v">> stand for "help" and for a command without arguments    *)
(*     like "version".  What the other commands do is modelled in RxQueue, *)
(*     I2cSlave and AppBoot.                                               *)
(*   - An answer is the list of its lines; input that arrives while it is  *)
(*     written waits in the driver.                                        *)
(*                                                                         *)
(* raw is history: the characters since the last line end.                 *)
(***************************************************************************)
EXTENDS Naturals, Sequences, FiniteSets

CONSTANTS
    Letters,        \* what words are made of
    LineMax,        \* CLI_MAX_LINE_LENGTH
    MaxArgs,        \* CLI_MAX_ARGUMENTS
    Commands,       \* the command table, help apart
    MaxRaw          \* bound on the characters of a line

Blank == " "

Help == <<"h">>

ASSUME CliAssumption ==
    /\ LineMax \in Nat \ {0} /\ MaxArgs \in Nat \ {0}
    /\ MaxRaw \in Nat
    /\ IsFiniteSet(Commands) /\ Help \notin Commands

VARIABLES
    line,           \* line[0 .. lineLength - 1]
    tooLong,        \* lineTooLong
    raw,
    replies         \* the lines just written, if the last character ended a line

cliVars == <<line, tooLong, raw, replies>>

CliInit ==
    /\ line = <<>> /\ tooLong = FALSE /\ raw = <<>>
    /\ replies = <<>>

-----------------------------------------------------------------------------
(* cli_process_line: the lines a command line is answered with.            *)

WordStarts(s) == {i \in 1 .. Len(s) : s[i] # Blank /\ (i = 1 \/ s[i - 1] = Blank)}

Nth(S, n) == CHOOSE i \in S : Cardinality({j \in S : j <= i}) = n

\* argv[n - 1]: strtok ends a word at the next blank.
Word(s, n) ==
    LET from == Nth(WordStarts(s), n)
        to == CHOOSE k \in from .. Len(s) :
                 /\ \A j \in from .. k : s[j] # Blank
                 /\ k = Len(s) \/ s[k + 1] = Blank
    IN  SubSeq(s, from, to)

help_topic(word) ==
    CASE word = Help -> <<"OK">>
      [] word \in Commands -> <<"OK USAGE">>
      [] OTHER -> <<"ERR CMD">>

cli_help(s, argc) ==
    CASE argc > 2 -> <<"ERR ARG">>
      [] argc = 2 -> help_topic(Word(s, 2))
      [] argc < 2 -> <<"OK", "OK">> \o [i \in 1 .. Cardinality(Commands) |-> "OK USAGE"]

version_command(argc) == IF argc = 1 THEN <<"OK">> ELSE <<"ERR ARG">>

TooMany(argc) == argc > MaxArgs

dispatch(s, argc) ==
    CASE Word(s, 1) = Help -> cli_help(s, argc)
      [] Word(s, 1) \in Commands -> version_command(argc)
      [] OTHER -> <<"ERR CMD">>

cli_process_line(s) ==
    LET argc == Cardinality(WordStarts(s))
    IN  CASE TooMany(argc) -> <<"ERR ARG">>
          [] argc = 0 -> <<>>
          [] OTHER -> dispatch(s, argc)

-----------------------------------------------------------------------------
(* The reader loop of cliThread.                                           *)

Answer == CASE tooLong -> <<"ERR LINE">>
            [] ~tooLong /\ line # <<>> -> cli_process_line(line)
            [] ~tooLong /\ line = <<>> -> <<>>

\* Mutant: the flag of an overlong line is never cleared.
EndLine_StaysTooLong ==
    /\ replies' = Answer
    /\ line' = <<>>
    /\ UNCHANGED tooLong

\* A line end: answer, and start over.
EndLine ==
    /\ replies' = Answer
    /\ line' = <<>>
    /\ tooLong' = FALSE

\* Mutant: no place is kept for the terminator.
HasRoom_OffByOne == Len(line) < LineMax

HasRoom == Len(line) < LineMax - 1

AddChar(c) ==
    /\ line' = IF HasRoom THEN Append(line, c) ELSE line
    /\ tooLong' = (tooLong \/ ~HasRoom)
    /\ replies' = <<>>

\* UART_read returns CR or LF, which are treated alike, or another character.
ReadLineEnd ==
    /\ EndLine
    /\ raw' = <<>>

ReadChar(c) ==
    /\ Len(raw) < MaxRaw
    /\ AddChar(c)
    /\ raw' = Append(raw, c)

-----------------------------------------------------------------------------
CliNext ==
    \/ ReadLineEnd
    \/ \E c \in Letters \cup {Blank} : ReadChar(c)

CliSpec == CliInit /\ [][CliNext]_cliVars

-----------------------------------------------------------------------------
(* Properties.                                                             *)

\* The types; the line leaves a byte for the terminator that EndLine stores
\* (cli_task_cc1310.c, line[lineLength] = 0).
TypeOK ==
    /\ line \in Seq(Letters \cup {Blank}) /\ Len(line) < LineMax
    /\ tooLong \in BOOLEAN
    /\ raw \in Seq(Letters \cup {Blank}) /\ Len(raw) <= MaxRaw
    /\ replies \in Seq({"OK", "OK USAGE", "ERR ARG", "ERR CMD", "ERR LINE"})

\* The words of a line, read from the left: a character starts a word or is
\* added to the last one.
AddTo(ws, s, k) ==
    IF s[k] = Blank THEN ws
    ELSE IF k = 1 \/ s[k - 1] = Blank THEN Append(ws, <<s[k]>>)
    ELSE [ws EXCEPT ![Len(ws)] = Append(ws[Len(ws)], s[k])]

Words(s) ==
    LET words[k \in 0 .. Len(s)] == IF k = 0 THEN <<>> ELSE AddTo(words[k - 1], s, k)
    IN  words[Len(s)]

\* A line is answered by itself alone, whatever came before it: an overlong
\* one with a single error however long it is, a blank one not at all, one
\* with too many words or with an unknown first word with a single error
\* (cliThread's buffer and flag, cli_process_line's argv).
AnswersThisLine ==
    [][raw # <<>> /\ raw' = <<>> =>
         LET ws == Words(raw)
         IN  /\ Len(raw) >= LineMax <=> replies' = <<"ERR LINE">>
             /\ Len(raw) < LineMax =>
                   /\ ws = <<>> <=> replies' = <<>>
                   /\ Len(ws) > MaxArgs => replies' = <<"ERR ARG">>
                   /\ ws # <<>> /\ Len(ws) <= MaxArgs =>
                         /\ (Head(ws) \notin Commands \cup {Help}) => replies' = <<"ERR CMD">>
                         /\ ws \in {<<c>> : c \in Commands} => replies' = <<"OK">>
                         /\ ws = <<Help>> => Len(replies') = 2 + Cardinality(Commands)]_cliVars
=============================================================================
