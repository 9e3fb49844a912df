-------------------------------- MODULE Cli ---------------------------------
(***************************************************************************)
(* The command line of modules/cli/src/cli.c, one received character a     *)
(* step: editing, history and tokenising.  Characters are the space, the   *)
(* quote and letters, which stand for all that readline stores and echoes  *)
(* (CTRL_B and CTRL_F too), and the keys it acts on; screen is the line    *)
(* that the echoed output leaves on a terminal.  The line being typed and  *)
(* the history slots follow one another in one buffer.                     *)
(***************************************************************************)
EXTENDS Integers, Sequences, SequencesExt, FiniteSets

CONSTANTS
    Letters, Space, Quote,
    MaxLen,      \* CLI_CMD_MAXLEN
    Cap,         \* history_cap: history slots behind the scratch line
    MaxArgs      \* CLI_CMD_ARGS_MAXLEN

\* There is at least one slot of history.
ASSUME CliAssumption == MaxLen \in Nat \ {0} /\ Cap \in Nat \ {0}

VARIABLES
    line,        \* buf up to cursor_pos
    history,     \* the history slots
    next,        \* history_next
    active,      \* history_active
    prev,        \* previous_input, when it was an end of line
    screen,      \* ghost: what the terminal shows after the prompt
    last,        \* ghost: what the terminal showed of the last command
    ran,         \* ghost: the text the last command was parsed from
    argc         \* the arguments of the last command

cliVars == <<line, history, next, active, prev, screen, last, ran, argc>>

Chars == Letters \cup {Space, Quote}
Newlines == {"lf", "cr"}
Stored(l) == SubSeq(l, 1, IF Len(l) < MaxLen THEN Len(l) ELSE MaxLen - 1)

-----------------------------------------------------------------------------
(* parse_command: a fold over the line; the delimiter is the space or, in  *)
(* quotes, the quote.                                                      *)

\* Spaces from position i on, none when only spaces follow.
CountLeadingSpaces(l, i) ==
    LET word == {j \in i..Len(l) : l[j] # Space} IN
    IF word = {} THEN 0 ELSE (CHOOSE j \in word : \A k \in word : j <= k) - i

IsDelimiter(ch, delim) == ch = Quote \/ (delim # Quote /\ ch = Space)
NextDelimiter(ch, delim) ==
    IF ch # Quote THEN delim ELSE IF delim = Quote THEN Space ELSE Quote

\* The number of arguments, and the positions where a delimiter was overwritten
\* by the end of a string: from position i on, with n found so far and the current
\* one starting at position start.  A delimiter in the very first place and nothing
\* after it makes no argument.
ParseCommand(l) ==
    LET N == Len(l) + 1
        Walk[s \in [i : 1..N, delim : {Space, Quote}, n : 0..MaxArgs, start : 1..N, ends : SUBSET (1..N)]] ==
          IF s.i = N THEN [argc |-> s.n + 1, ends |-> s.ends]
          ELSE IF ~IsDelimiter(l[s.i], s.delim) THEN Walk[[s EXCEPT !.i = @ + 1]]
          ELSE IF s.i = Len(l)
          THEN [argc |-> s.n + IF s.i = 1 THEN 0 ELSE 1, ends |-> s.ends \cup {s.i}]
          ELSE LET i == s.i + CountLeadingSpaces(l, s.i + 1) IN
               Walk[[i |-> i + 1, delim |-> NextDelimiter(l[s.i], s.delim), start |-> i + 1,
                     n |-> IF s.start # i /\ s.n < MaxArgs THEN s.n + 1 ELSE s.n,
                     ends |-> s.ends \cup {s.i}]]
        first == 1 + CountLeadingSpaces(l, 1)
    IN  IF l = <<>> THEN [argc |-> 0, ends |-> {}]
        ELSE Walk[[i |-> first, delim |-> Space, n |-> 0, start |-> first, ends |-> {}]]

-----------------------------------------------------------------------------
CliInit ==
    /\ line = <<>>
    /\ history = [i \in 0..(Cap - 1) |-> <<>>]
    /\ next = 0
    /\ active = 0
    /\ prev = "other"
    /\ screen = <<>>
    /\ last = <<>>
    /\ ran = <<>>
    /\ argc = 0

GetActiveHistoryIndex(distance) == (Cap + distance + active) % Cap

\* The terminator of a line of the full length lands in the first history slot.
AfterTerminator(l) == IF Len(l) = MaxLen THEN [history EXCEPT ![0] = <<>>] ELSE history

\* When its history entry goes there too it overwrites that terminator, and what
\* is parsed is the line and the entry behind it.
Executed(l) == IF Len(l) = MaxLen /\ next = 0 THEN l \o Stored(l) ELSE l

\* Parsing it ends the entry at the first delimiter found in there.
Unspoilt(l) == {n \in 1..(MaxLen - 1) : \A k \in 1..n : MaxLen + k \notin ParseCommand(Executed(l)).ends}
Entry(l) == IF Executed(l) = l THEN Stored(l) ELSE SubSeq(l, 1, Cardinality(Unspoilt(l)))

\* Skipped when it repeats the previous entry.
SetHistory(l, h) ==
    LET skip == l = <<>> \/ h[(Cap + next - 1) % Cap] = l
        n == IF skip THEN next ELSE (next + 1) % Cap
    IN  /\ history' = IF skip THEN h ELSE [h EXCEPT ![next] = Entry(l)]
        /\ next' = n
        /\ active' = n

\* A newline of the other kind right after a newline is swallowed.
Enter(ch) ==
    LET l == IF ch = "ctrl_c" THEN <<>> ELSE line IN
    IF prev \in Newlines /\ ch # prev
    THEN /\ prev' = "other"
         /\ line' = l
         /\ UNCHANGED <<history, next, active, screen, last, ran, argc>>
    ELSE /\ prev' = ch
         /\ line' = <<>>
         /\ screen' = <<>>
         /\ last' = IF l = <<>> THEN last ELSE screen
         /\ ran' = IF l = <<>> THEN ran ELSE Executed(l)
         /\ argc' = ParseCommand(Executed(l)).argc
         /\ SetHistory(l, AfterTerminator(l))

Backspace ==
    /\ prev' = "other"
    /\ line' = IF line = <<>> THEN line ELSE Front(line)
    /\ screen' = IF line = <<>> THEN screen ELSE Front(screen)
    /\ UNCHANGED <<history, next, active, last, ran, argc>>

Erase(n) == SubSeq(screen, 1, Len(screen) - n)

\* Bug the runs must notice: the new line is written over the old one.
ReplaceLineNoErase(distance) ==
    LET i == GetActiveHistoryIndex(distance) IN
    /\ prev' = "other"
    /\ IF history[i] # <<>>
         THEN line' = history[i] /\ screen' = screen \o history[i] /\ active' = i
         ELSE UNCHANGED <<line, screen, active>>
    /\ UNCHANGED <<history, next, last, ran, argc>>

\* Arrow keys and CTRL_P, CTRL_N.
ReplaceLineWithHistory(distance) ==
    LET i == GetActiveHistoryIndex(distance) IN
    /\ prev' = "other"
    /\ \/ /\ history[i] # <<>>
          /\ line' = history[i]
          /\ screen' = Erase(Len(line)) \o history[i]
          /\ active' = i
       \/ /\ history[i] = <<>> /\ distance > 0 /\ line # <<>>
          /\ line' = <<>>
          /\ screen' = Erase(Len(line))
          /\ active' = GetActiveHistoryIndex(1)
       \/ /\ history[i] = <<>> /\ (distance < 0 \/ line = <<>>)
          /\ UNCHANGED <<line, screen, active>>
    /\ UNCHANGED <<history, next, last, ran, argc>>

\* A full line drops further characters and does not echo them.
Type(ch) ==
    /\ prev' = "other"
    /\ line' = IF Len(line) >= MaxLen THEN line ELSE Append(line, ch)
    /\ screen' = IF Len(line) >= MaxLen THEN screen ELSE Append(screen, ch)
    /\ UNCHANGED <<history, next, active, last, ran, argc>>

\* TAB, and an escape sequence that is cut short or not an arrow.
Ignored == prev' = "other" /\ UNCHANGED <<line, history, next, active, screen, last, ran, argc>>

CliNext ==
    \/ \E ch \in Newlines \cup {"ctrl_c"} : Enter(ch)
    \/ Backspace
    \/ \E distance \in {-1, 1} : ReplaceLineWithHistory(distance)
    \/ \E ch \in Chars : Type(ch)
    \/ Ignored

CliSpec == CliInit /\ [][CliNext]_cliVars

-----------------------------------------------------------------------------
\* The terminal shows the line that Enter will execute, after any mixture of
\* typing past the limit, erasing and walking through the history.
ScreenIsLine == screen = line

\* What was executed is what the terminal showed; a line of the full length may
\* be followed by the start of itself.
RunsLast == ran = last \/ (Len(last) = MaxLen /\ ran = last \o Stored(last))

\* From a fresh prompt the first step back recalls the last command entered (as
\* much of it as a slot keeps), unless more than that was executed.
RecallsLast ==
    active = next /\ last # <<>> /\ ran = last => history[GetActiveHistoryIndex(-1)] = Stored(last)

\* What the user sees is what is executed and recalled: the terminal shows the
\* line that Enter will execute, after any mixture of typing past the limit,
\* erasing and walking through the history; that line is executed, by itself if
\* it is shorter than the limit; and from a fresh prompt the first step back
\* recalls it.
CliFaithful == ScreenIsLine /\ RunsLast /\ RecallsLast

\* Not so: a line of the full length whose entry goes to the first slot is
\* executed with that entry appended, and parsing it shortens the entry.
RunsWhatIsShown == ran = last
=============================================================================
