------------------------------- MODULE Input --------------------------------
(***************************************************************************)
(* From keys to the words of a command: read_line of libs/keyboard.c,      *)
(* my_str_trim and my_tokenize of libs/string.c, all in the one array      *)
(* `input' of shell_run, and the arguments cmd_echo and cmd_write join     *)
(* again.  The array is never cleared: behind the terminator are the bytes *)
(* of earlier lines, with the terminators that tokenizing left in them.    *)
(* Around it, keyboard_init and keyboard_restore change the mode of the    *)
(* terminal, which outlives the program.                                   *)
(***************************************************************************)
EXTENDS Integers, FiniteSets, SequencesExt

CONSTANTS
  MAX_LEN,        \* the size of `input', 256 in the code
  Letters,        \* the printable characters other than the blank
  QUIT,           \* the one of them that stands for the command exit
  MAX_TOKENS      \* the size of `tokens', 16 in the code

ASSUME InputAssumption ==
  MAX_LEN \in Nat \ {0} /\ MAX_TOKENS \in Nat \ {0} /\ QUIT \in Letters

ASSUME LettersAssumption == \A c \in {"NUL", " ", "enter", "backspace"} : c \notin Letters

VARIABLES
  input,          \* the array of shell_run
  pos,            \* the local of read_line
  tokens,         \* the offsets in `input' that my_tokenize stores
  phase,          \* "off", "reading", "entered", "dispatching", "ended", or
                  \* "overrun": my_tokenize has stored behind the end of `tokens'
  attached,       \* the input has not ended
  terminal,       \* the mode of the terminal: "lines", "keys" (ICANON and ECHO off)
  original_termios, raw_mode_active,      \* the statics of keyboard.c
  shown,          \* the line being read as it shows on the screen (history)
  before          \* the mode in which the program found the terminal (history)

modes == <<terminal, original_termios, raw_mode_active, before>>
vars == <<input, pos, tokens, phase, attached, shown, modes>>

NUL == "NUL"
BLANK == " "
Printable == Letters \cup {BLANK}

limit == MAX_LEN - 1

-----------------------------------------------------------------------------
(* Strings are prefixes of arrays up to the first NUL. *)

my_strlen(s, from) ==
  (CHOOSE i \in from .. limit : s[i] = NUL /\ \A j \in from .. i - 1 : s[j] # NUL) - from

StringAt(s, from) == [k \in 1 .. my_strlen(s, from) |-> s[from + k - 1]]

(* The loop for trailing blanks runs down to start, not past it. *)
TrimStart(s) == CHOOSE i \in 0 .. limit : s[i] # BLANK /\ \A j \in 0 .. i - 1 : s[j] = BLANK

TrimEnd(s, start) ==
  CHOOSE e \in start - 1 .. my_strlen(s, 0) - 1 :
    /\ e >= start => s[e] # BLANK
    /\ \A j \in e + 1 .. my_strlen(s, 0) - 1 : s[j] = BLANK

(* Characters move down when blanks lead, and a terminator follows them. *)
Shifted_NoTerminator(s, start, end) ==
  [i \in DOMAIN s |-> IF i <= end - start THEN s[start + i] ELSE s[i]]
Shifted(s, start, end) ==
  [i \in DOMAIN s |-> IF i <= end - start THEN s[start + i]
                      ELSE IF i = end - start + 1 THEN NUL ELSE s[i]]

my_str_trim(s) ==
  IF my_strlen(s, 0) = 0 THEN s
  ELSE Shifted(s, TrimStart(s), TrimEnd(s, TrimStart(s)))

(* The loop of my_tokenize: Rounds(s)[i] is what it has found in the first *)
(* i characters.  Every blank is replaced by a terminator.                 *)
FoundRound_FlagNeverSet(found, c, i) ==
  [in_token |-> FALSE,
   starts |-> IF c # BLANK /\ ~found.in_token THEN Append(found.starts, i) ELSE found.starts]
FoundRound(found, c, i) ==
  [in_token |-> c # BLANK,
   starts |-> IF c # BLANK /\ ~found.in_token THEN Append(found.starts, i) ELSE found.starts]

Rounds(s) ==
  LET rounds[i \in 0 .. my_strlen(s, 0)] ==
        IF i = 0 THEN [in_token |-> FALSE, starts |-> <<>>]
                 ELSE FoundRound(rounds[i - 1], s[i - 1], i - 1)
  IN rounds

my_tokenize(s) ==
  LET len == my_strlen(s, 0)
  IN [cut |-> [i \in DOMAIN s |-> IF i < len /\ s[i] = BLANK THEN NUL ELSE s[i]],
      found |-> Rounds(s)[len].starts]

(* my_strcat of the words from the one numbered first (from 0), a blank    *)
(* after each but the last: first = 1 in cmd_echo, 2 in cmd_write.         *)
Separator_Always(k) == <<BLANK>>
Separator(k) == IF k < Len(tokens) THEN <<BLANK>> ELSE <<>>

Joined(first) ==
  LET content[k \in first .. Len(tokens)] ==
        IF k = first THEN <<>>
        ELSE content[k - 1] \o StringAt(input, tokens[k]) \o Separator(k)
  IN content[Len(tokens)]

-----------------------------------------------------------------------------
(* What the keys mean, without an array. *)
Edit(text, key) ==
  IF key = "backspace" THEN SubSeq(text, 1, Len(text) - 1)
  ELSE IF Len(text) < limit THEN Append(text, key) ELSE text

(* The words of a text: its longest stretches without a blank, in order.   *)
Words(text) ==
  LET In(i) == i \in 1 .. Len(text) /\ text[i] # BLANK
      Starts == {i \in 1 .. Len(text) : In(i) /\ ~In(i - 1)}
      End(i) == CHOOSE e \in i .. Len(text) : ~In(e + 1) /\ \A j \in i .. e : In(j)
      Nth(k) == CHOOSE i \in Starts : Cardinality({j \in Starts : j <= i}) = k
  IN [k \in 1 .. Cardinality(Starts) |-> SubSeq(text, Nth(k), End(Nth(k)))]

(* Blanks only between two other characters. *)
IsSpaced(text) ==
  \A i \in 1 .. Len(text) :
    text[i] = BLANK => 1 < i /\ i < Len(text) /\ text[i - 1] # BLANK /\ text[i + 1] # BLANK

-----------------------------------------------------------------------------
(* The program runs, ends and is started again from the same terminal.     *)

Filled(c) == [i \in 0 .. limit |-> c]

Init ==
  /\ phase = "off"
  /\ input = Filled(NUL) /\ pos = 0 /\ tokens = <<>> /\ shown = <<>>
  /\ attached = TRUE
  /\ terminal = "lines" /\ before = "lines"
  /\ original_termios = "zeroed" /\ raw_mode_active = FALSE

keyboard_init_SavesRaw ==
  /\ original_termios' = "keys"
  /\ terminal' = "keys"
  /\ raw_mode_active' = TRUE
keyboard_init ==
  /\ original_termios' = terminal
  /\ terminal' = "keys"
  /\ raw_mode_active' = TRUE

(* The mode that keyboard_restore leaves. *)
Restored == IF raw_mode_active THEN original_termios ELSE terminal

(* main, up to the first prompt; `input' is not initialized. *)
Boots ==
  /\ phase = "off"
  /\ phase' = "reading"
  /\ \E c \in {NUL} \cup Printable : input' = Filled(c)
  /\ attached' = TRUE
  /\ keyboard_init
  /\ before' = terminal
  /\ UNCHANGED <<pos, tokens, shown>>

Cleared ==
  /\ phase' = "off"
  /\ input' = Filled(NUL) /\ pos' = 0 /\ tokens' = <<>> /\ shown' = <<>>
  /\ attached' = TRUE
  /\ original_termios' = "zeroed" /\ raw_mode_active' = FALSE
  /\ UNCHANGED before

(* main after shell_run: it restores the terminal once more. *)
MainReturns == phase = "ended" /\ terminal' = Restored /\ Cleared

(* The program is killed, for example by control-C, which is still a       *)
(* signal: nobody restores the terminal.                                   *)
Dies ==
  /\ phase \notin {"off", "ended"}
  /\ Cleared
  /\ UNCHANGED terminal

(* The place for the terminator stays free. *)
Fits_OnePast == pos <= limit
Fits == pos < limit

Reads == phase = "reading" /\ attached

PrintableKey(key) ==
  /\ Reads
  /\ IF Fits THEN input' = [input EXCEPT ![pos] = key] /\ pos' = pos + 1
             ELSE UNCHANGED <<input, pos>>
  /\ shown' = Edit(shown, key)
  /\ UNCHANGED <<tokens, phase, attached, modes>>

Back == IF pos > 0 THEN pos - 1 ELSE pos

BackspaceKey ==
  /\ Reads
  /\ pos' = Back
  /\ shown' = Edit(shown, "backspace")
  /\ UNCHANGED <<input, tokens, phase, attached, modes>>

(* A control character, or the 0 that read_char answers when the input has *)
(* ended: read_line reads on, after the end of input for ever.             *)
ControlKey ==
  /\ phase = "reading"
  /\ UNCHANGED vars

IsSkipped_ShortLine(trimmed) == my_strlen(trimmed, 0) <= 1
IsSkipped(trimmed) == my_strlen(trimmed, 0) = 0

(* read_line returns. *)
EnterKey ==
  /\ Reads
  /\ phase' = "entered"
  /\ input' = [input EXCEPT ![pos] = NUL]
  /\ pos' = 0
  /\ UNCHANGED <<tokens, attached, shown, modes>>

(* shell_run trims the line, skips it when nothing is left, and tokenizes  *)
(* it.  my_tokenize does not know how many tokens the array has room for:  *)
(* one more overwrites what is behind it, and the model ends there.        *)
HasRoom(found) == Len(found) <= MAX_TOKENS

Parse ==
  /\ phase = "entered"
  /\ \E trimmed \in {my_str_trim(input)} :
       LET found == my_tokenize(trimmed).found
       IN IF IsSkipped(trimmed)
          THEN /\ input' = trimmed
               /\ phase' = "reading"
               /\ shown' = <<>>
               /\ UNCHANGED tokens
          ELSE /\ input' = my_tokenize(trimmed).cut
               /\ tokens' = IF HasRoom(found) THEN found ELSE SubSeq(found, 1, MAX_TOKENS)
               /\ phase' = IF HasRoom(found) THEN "dispatching" ELSE "overrun"
               /\ UNCHANGED shown
  /\ UNCHANGED <<pos, attached, modes>>

(* The command runs; exit restores the terminal and ends the loop, after   *)
(* anything else the next line is read.                                    *)
Dispatch ==
  /\ phase = "dispatching"
  /\ IF StringAt(input, tokens[1]) = <<QUIT>>
     THEN phase' = "ended" /\ terminal' = Restored /\ raw_mode_active' = FALSE
     ELSE phase' = "reading" /\ UNCHANGED <<terminal, raw_mode_active>>
  /\ shown' = <<>>
  /\ UNCHANGED <<input, pos, tokens, attached, original_termios, before>>

(* read() returns nothing from now on. *)
InputEnds ==
  /\ phase = "reading" /\ attached
  /\ attached' = FALSE
  /\ UNCHANGED <<input, pos, tokens, phase, shown, modes>>

Next ==
  \/ \E key \in Printable : PrintableKey(key)
  \/ BackspaceKey
  \/ ControlKey
  \/ EnterKey
  \/ Parse
  \/ Dispatch
  \/ InputEnds
  \/ Boots
  \/ MainReturns
  \/ Dies

(* The program carries on by itself once a line is entered; no key, and    *)
(* so no end of a line, is owed to it.                                     *)
Spec == Init /\ [][Next]_vars /\ WF_vars(Parse) /\ WF_vars(Dispatch) /\ WF_vars(MainReturns)

-----------------------------------------------------------------------------
(* The array keeps its size, pos stays in front of the place kept for the  *)
(* terminator, tokens point into the array.  (read_line, my_tokenize)      *)
InputTypeOK ==
  /\ input \in [0 .. limit -> Printable \cup {NUL}]
  /\ pos \in 0 .. limit
  /\ Len(tokens) <= MAX_TOKENS /\ \A k \in DOMAIN tokens : tokens[k] \in 0 .. limit
  /\ phase \in {"off", "reading", "entered", "dispatching", "overrun", "ended"}
  /\ attached \in BOOLEAN /\ raw_mode_active \in BOOLEAN
  /\ {terminal, before} \subseteq {"lines", "keys"}
  /\ original_termios \in {"zeroed", "lines", "keys"}
  /\ ToSet(shown) \subseteq Printable /\ Len(shown) <= limit

(* Whatever was edited, dropped at the limit or left in the array by the   *)
(* lines before, a command gets the words of the line as it shows on the   *)
(* screen.  (read_line, my_str_trim and my_tokenize in shell_run)          *)
CommandGetsWords ==
  phase = "dispatching" =>
    [k \in DOMAIN tokens |-> StringAt(input, tokens[k])] = Words(shown)

(* echo and write get back the words of the line after their first one or  *)
(* two, with one blank between two words and none around them.             *)
(* (the joining loops of cmd_echo and cmd_write)                           *)
ArgumentsAreSpaced ==
  phase = "dispatching" =>
    \A first \in {1, 2} : Len(tokens) > first =>
      /\ IsSpaced(Joined(first))
      /\ Words(Joined(first)) = SubSeq(Words(shown), first + 1, Len(tokens))

(* A line is skipped exactly when it has no words: the second test of      *)
(* shell_run, for a line of no tokens, has nothing left to catch.          *)
(* (the two `continue's of shell_run)                                      *)
SkipsExactlyBlankLines ==
  [][phase = "entered" /\ phase' \in {"reading", "dispatching", "overrun"}
       => (phase' = "reading" <=> Words(shown) = <<>>)]_vars

(* Nothing but a line of more words than `tokens' has room for writes      *)
(* behind it, and every such line does.  (my_tokenize in shell_run)        *)
OnlyLongLinesOverrun ==
  /\ phase = "overrun" => Len(Words(shown)) > MAX_TOKENS
  /\ phase = "dispatching" => Len(Words(shown)) <= MAX_TOKENS

(* Lines are read key by key, and a program that comes to its end leaves   *)
(* the terminal as it found it, although both exit and main restore it,    *)
(* and whatever mode an earlier run that was killed has left.              *)
(* (keyboard_init in main, keyboard_restore in cmd_exit and main)          *)
TerminalGivenBack ==
  [][/\ phase' = "reading" => terminal' = "keys"
     /\ phase = "ended" /\ phase' = "off" => terminal' = before]_vars

(* The first word is exit, and the words fit. *)
SaysExit == Words(shown) # <<>> /\ Words(shown)[1] = <<QUIT>> /\ Len(Words(shown)) <= MAX_TOKENS

(* A line that says exit, and maybe more, ends the program, whatever       *)
(* blanks are around the word and whatever the lines before have left: it  *)
(* is not skipped, taken for another word or for a part of one, and no     *)
(* other line is needed after it.  (shell_run, cmd_exit, main)             *)
ExitEnds == (phase = "entered" /\ SaysExit) ~> phase = "off"
=============================================================================
