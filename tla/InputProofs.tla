---------------------------- MODULE InputProofs -----------------------------
(***************************************************************************)
(* For all sizes of the arrays `input' and `tokens': reading and trimming  *)
(* a line stay inside the first, only a line of too many words overruns    *)
(* the second, any other is skipped or reaches a command as the words that *)
(* show on the screen, echo and write join them with single blanks, and    *)
(* the terminal is given back.  What ties the arrays to the screen is said *)
(* of the text on it: where its words begin and end (WordList), and which  *)
(* part of it a string in the array holds (Holds, HoldsPart).              *)
(***************************************************************************)
EXTENDS Input, OrderLemmas, SequenceTheorems

Arrays == [0 .. limit -> Printable \cup {NUL}]

(* The array holds a string: the search for its end stops inside it.       *)
Terminated(s) == \E i \in 0 .. limit : s[i] = NUL

-----------------------------------------------------------------------------
(* my_strlen finds the terminator.                                         *)
LEMMA StrlenStops ==
  ASSUME NEW s \in Arrays, Terminated(s)
  PROVE  my_strlen(s, 0) \in 0 .. limit /\ s[my_strlen(s, 0)] = NUL
<1> DEFINE Ends == {i \in 0 .. limit : s[i] = NUL}
           IsEnd(i) == s[i] = NUL /\ \A j \in 0 .. i - 1 : s[j] # NUL
<1>1. limit \in Nat
  BY InputAssumption DEF limit
<1>2. Ends \in SUBSET Nat /\ Ends # {}
  BY <1>1 DEF Terminated
<1>3. PICK n \in Ends : \A m \in Ends : n <= m
  BY <1>2, LeastNat
<1>4. n \in 0 .. limit /\ IsEnd(n)
  <2>1. ASSUME NEW j \in 0 .. n - 1 PROVE s[j] # NUL
    <3>1. j \in 0 .. limit /\ ~(n <= j)
      BY <1>1, <1>3
    <3> QED BY <1>3, <3>1
  <2> QED BY <1>3, <2>1
<1>5. my_strlen(s, 0) = (CHOOSE i \in 0 .. limit : IsEnd(i)) - 0
  BY DEF my_strlen
<1> DEFINE e == CHOOSE i \in 0 .. limit : IsEnd(i)
<1>6. e \in 0 .. limit /\ s[e] = NUL
  BY <1>4
<1> HIDE DEF e
<1>7. my_strlen(s, 0) = e
  BY <1>1, <1>5, <1>6 DEF e
<1> QED BY <1>6, <1>7

(* The search for the first character that is no blank stops at the        *)
(* terminator, and passes blanks only.                                     *)
LEMMA TrimStartStops ==
  ASSUME NEW s \in Arrays, Terminated(s)
  PROVE  /\ TrimStart(s) \in 0 .. my_strlen(s, 0) /\ s[TrimStart(s)] # BLANK
         /\ \A j \in 0 .. TrimStart(s) - 1 : s[j] = BLANK
<1> DEFINE len == my_strlen(s, 0)
           Others == {i \in 0 .. limit : s[i] # BLANK}
           IsFirst(i) == s[i] # BLANK /\ \A j \in 0 .. i - 1 : s[j] = BLANK
<1>1. limit \in Nat /\ len \in 0 .. limit /\ s[len] # BLANK
  <2>1. limit \in Nat /\ len \in 0 .. limit /\ s[len] = NUL
    BY StrlenStops, InputAssumption DEF limit
  <2>2. NUL # BLANK
    BY DEF NUL, BLANK
  <2> QED BY <2>1, <2>2
<1> HIDE DEF len
<1>2. Others \in SUBSET Nat /\ Others # {}
  BY <1>1
<1>3. PICK n \in Others : \A m \in Others : n <= m
  BY <1>2, LeastNat
<1>4. n \in 0 .. limit /\ IsFirst(n)
  <2>1. ASSUME NEW j \in 0 .. n - 1 PROVE s[j] = BLANK
    <3>1. j \in 0 .. limit /\ ~(n <= j)
      BY <1>1, <1>3
    <3> QED BY <1>3, <3>1
  <2> QED BY <1>3, <2>1
<1> DEFINE e == CHOOSE i \in 0 .. limit : IsFirst(i)
<1>5. e \in 0 .. limit /\ IsFirst(e)
  BY <1>4
<1>6. TrimStart(s) = e
  BY DEF TrimStart
<1> HIDE DEF e
<1>7. ~(len < e)
  BY <1>1, <1>5
<1> QED BY <1>1, <1>5, <1>6, <1>7 DEF len

(* The loop for trailing blanks stops at the last other character, or in   *)
(* front of start, and passes blanks only.                                 *)
LEMMA TrimEndStops ==
  ASSUME NEW s \in Arrays, Terminated(s), NEW start \in 0 .. my_strlen(s, 0)
  PROVE  /\ TrimEnd(s, start) \in start - 1 .. my_strlen(s, 0) - 1
         /\ \A j \in TrimEnd(s, start) + 1 .. my_strlen(s, 0) - 1 : s[j] = BLANK
<1> DEFINE len == my_strlen(s, 0)
           Others == {i \in start .. len - 1 : s[i] # BLANK}
           IsLast(e) == /\ e >= start => s[e] # BLANK
                        /\ \A j \in e + 1 .. len - 1 : s[j] = BLANK
           From == {len - i : i \in Others}
<1>1. limit \in Nat /\ len \in 0 .. limit /\ start \in 0 .. len
  BY StrlenStops, InputAssumption DEF limit
<1>2. TrimEnd(s, start) = CHOOSE e \in start - 1 .. len - 1 : IsLast(e)
  BY DEF TrimEnd
<1> HIDE DEF len
<1>3. \E e \in start - 1 .. len - 1 : IsLast(e)
  <2>1. CASE Others = {}
    <3>1. start - 1 \in start - 1 .. len - 1 /\ IsLast(start - 1)
      BY <1>1, <2>1
    <3> QED BY <3>1
  <2>2. CASE Others # {}
    <3>1. From \in SUBSET Nat /\ From # {}
      BY <1>1, <2>2
    <3>2. PICK n \in From : \A m \in From : n <= m
      BY <3>1, LeastNat
    <3>3. PICK e \in Others : n = len - e
      BY <3>2
    <3>4. ASSUME NEW j \in e + 1 .. len - 1 PROVE s[j] = BLANK
      <4>1. j \in start .. len - 1 /\ len - j < n
        BY <1>1, <3>3
      <4>2. len - j \notin From
        BY <1>1, <3>2, <3>3, <4>1
      <4> QED BY <4>1, <4>2
    <3>5. e \in start - 1 .. len - 1 /\ IsLast(e)
      BY <1>1, <3>3, <3>4
    <3> QED BY <3>5
  <2> QED BY <2>1, <2>2
<1> DEFINE e == CHOOSE e \in start - 1 .. len - 1 : IsLast(e)
<1>4. e \in start - 1 .. len - 1 /\ IsLast(e)
  <2> HIDE DEF IsLast
  <2> QED BY <1>3
<1> HIDE DEF e
<1> QED BY <1>2, <1>4 DEF len, e

(* Trimming moves characters inside the array and leaves a string there.   *)
LEMMA TrimStays ==
  ASSUME NEW s \in Arrays, Terminated(s)
  PROVE  my_str_trim(s) \in Arrays /\ Terminated(my_str_trim(s))
<1> DEFINE len == my_strlen(s, 0)
           start == TrimStart(s)
           end == TrimEnd(s, start)
<1>1. limit \in Nat /\ len \in 0 .. limit /\ start \in 0 .. len /\ end \in start - 1 .. len - 1
  BY StrlenStops, TrimStartStops, TrimEndStops, InputAssumption DEF limit
<1>2. my_str_trim(s) = IF len = 0 THEN s ELSE Shifted(s, start, end)
  BY DEF my_str_trim
<1> HIDE DEF len, start, end
<1>3. Shifted(s, start, end) \in Arrays
  <2>1. DOMAIN s = 0 .. limit
    BY DEF Arrays
  <2>2. ASSUME NEW i \in 0 .. limit, i <= end - start PROVE start + i \in 0 .. limit
    BY <1>1, <2>2
  <2> QED BY <1>1, <2>1, <2>2 DEF Shifted, Arrays
<1>4. Terminated(Shifted(s, start, end))
  <2>1. DOMAIN s = 0 .. limit
    BY DEF Arrays
  <2>2. end - start + 1 \in 0 .. limit /\ ~(end - start + 1 <= end - start)
    BY <1>1
  <2>3. Shifted(s, start, end)[end - start + 1] = NUL
    BY <2>1, <2>2 DEF Shifted
  <2> QED BY <2>2, <2>3 DEF Terminated
<1> QED BY <1>2, <1>3, <1>4

-----------------------------------------------------------------------------
(* The rounds of my_tokenize.  Rounds is a recursive function: that it     *)
(* satisfies its equation at all is shown by ever longer functions that    *)
(* do.                                                                     *)
NoTokens == [in_token |-> FALSE, starts |-> <<>>]

LEMMA RoundsStep ==
  ASSUME NEW s, my_strlen(s, 0) \in Nat
  PROVE  /\ Rounds(s)[0] = NoTokens
         /\ \A n \in 1 .. my_strlen(s, 0) :
              Rounds(s)[n] = FoundRound(Rounds(s)[n - 1], s[n - 1], n - 1)
<1> DEFINE len == my_strlen(s, 0)
           One(found, n) == FoundRound(found, s[n - 1], n - 1)
           Follows(g, k) == /\ g[0] = NoTokens
                            /\ \A n \in 1 .. k : g[n] = One(g[n - 1], n)
           Short == {k \in 0 .. len : ~ \E g : Follows(g, k)}
           Step(g) == [n \in 0 .. len |-> IF n = 0 THEN NoTokens ELSE One(g[n - 1], n)]
           Solves(g) == g = Step(g)
<1>1. len \in Nat
  OBVIOUS
<1>5. Rounds(s) = CHOOSE h : Solves(h)
  BY DEF Rounds, NoTokens
<1> HIDE DEF One, len
<1>2. Short = {}
  <2> SUFFICES ASSUME Short # {} PROVE FALSE
    OBVIOUS
  <2>1. Short \in SUBSET Nat
    BY <1>1
  <2>2. PICK k \in Short : \A m \in Short : k <= m
    BY <2>1, LeastNat
  <2>3. \E g : Follows(g, 0)
    <3>1. Follows([n \in {0} |-> NoTokens], 0)
      OBVIOUS
    <3> HIDE DEF Follows
    <3> QED BY <3>1
  <2> HIDE DEF Follows
  <2>4. k # 0 /\ k \in 0 .. len /\ k - 1 \notin Short
    BY <1>1, <2>1, <2>2, <2>3
  <2>5. PICK g : Follows(g, k - 1)
    BY <1>1, <2>4
  <2> USE DEF Follows
  <2> DEFINE h == [n \in 0 .. k |-> IF n = k THEN One(g[k - 1], k) ELSE g[n]]
  <2>6. h[0] = NoTokens
    BY <2>4, <2>5
  <2>7. ASSUME NEW n \in 1 .. k PROVE h[n] = One(h[n - 1], n)
    <3>1. h[n - 1] = g[n - 1]
      BY <2>4, <2>7
    <3>2. CASE n = k
      BY <2>4, <3>1, <3>2
    <3>3. CASE n # k
      <4>1. n \in 1 .. k - 1 /\ h[n] = g[n]
        BY <2>4, <3>3
      <4> QED BY <2>5, <3>1, <4>1
    <3> QED BY <3>2, <3>3
  <2> HIDE DEF h
  <2>8. Follows(h, k)
    BY <2>6, <2>7
  <2> QED BY <2>2, <2>8
<1>3. PICK g : Follows(g, len)
  BY <1>1, <1>2
<1> DEFINE f == [n \in 0 .. len |-> g[n]]
<1>4. Solves(f)
  <2>1. ASSUME NEW n \in 0 .. len PROVE f[n] = Step(f)[n]
    <3>1. CASE n = 0
      BY <1>1, <1>3, <3>1
    <3>2. CASE n # 0
      <4>1. n \in 1 .. len /\ n - 1 \in 0 .. len
        BY <1>1, <3>2
      <4>2. f[n] = g[n] /\ f[n - 1] = g[n - 1] /\ g[n] = One(g[n - 1], n)
        BY <1>3, <4>1
      <4>3. Step(f)[n] = One(f[n - 1], n)
        BY <3>2
      <4> QED BY <4>2, <4>3
    <3> QED BY <3>1, <3>2
  <2> QED BY <2>1
<1> HIDE DEF Solves, f
<1>6. Solves(Rounds(s))
  BY <1>4, <1>5
<1>7. Rounds(s) = Step(Rounds(s))
  BY <1>6 DEF Solves
<1>8. ASSUME NEW n \in 0 .. len
      PROVE  Rounds(s)[n] = IF n = 0 THEN NoTokens ELSE One(Rounds(s)[n - 1], n)
  BY <1>7
<1> QED BY <1>1, <1>8 DEF One, len

(* Every token begins inside the string.                                   *)
LEMMA TokensStay ==
  ASSUME NEW s \in Arrays, Terminated(s)
  PROVE  /\ my_tokenize(s).cut \in Arrays
         /\ my_tokenize(s).found \in Seq(0 .. limit)
<1> DEFINE len == my_strlen(s, 0)
           Sane(n) == Rounds(s)[n].starts \in Seq(0 .. limit)
           Bad == {n \in 0 .. len : ~Sane(n)}
<1>1. limit \in Nat /\ len \in 0 .. limit /\ len \in Nat
  BY StrlenStops, InputAssumption DEF limit
<1>2. /\ Rounds(s)[0] = NoTokens
      /\ \A n \in 1 .. len : Rounds(s)[n] = FoundRound(Rounds(s)[n - 1], s[n - 1], n - 1)
  BY <1>1, RoundsStep
<1>3. my_tokenize(s).found = Rounds(s)[len].starts
  BY DEF my_tokenize
<1>4. my_tokenize(s).cut \in Arrays
  BY DEF my_tokenize, Arrays
<1> HIDE DEF len
<1>5. Sane(0)
  BY <1>2 DEF NoTokens
<1>6. ASSUME NEW n \in 1 .. len, Sane(n - 1) PROVE Sane(n)
  <2> DEFINE prev == Rounds(s)[n - 1]
             q == FoundRound(prev, s[n - 1], n - 1)
  <2>1. n - 1 \in 0 .. limit /\ Rounds(s)[n] = q
    BY <1>1, <1>2
  <2>2. prev.starts \in Seq(0 .. limit)
    BY <1>6
  <2>3. q.starts \in {prev.starts, Append(prev.starts, n - 1)}
    BY DEF FoundRound
  <2> HIDE DEF prev, q
  <2>4. Append(prev.starts, n - 1) \in Seq(0 .. limit)
    BY <2>1, <2>2
  <2> QED BY <2>1, <2>2, <2>3, <2>4
<1> HIDE DEF Sane
<1>7. Bad = {}
  <2> SUFFICES ASSUME Bad # {} PROVE FALSE
    OBVIOUS
  <2>1. Bad \in SUBSET Nat
    BY <1>1
  <2>2. PICK n \in Bad : \A m \in Bad : n <= m
    BY <2>1, LeastNat
  <2>3. n \in 1 .. len /\ n - 1 \notin Bad /\ n - 1 \in 0 .. len
    BY <1>1, <1>5, <2>2
  <2> QED BY <1>6, <2>2, <2>3
<1>8. Sane(len)
  BY <1>1, <1>7
<1> QED BY <1>3, <1>4, <1>8 DEF Sane

-----------------------------------------------------------------------------
(* The text on the screen, which every key leaves short enough.            *)
Texts == {t \in Seq(Printable) : Len(t) <= limit}

LEMMA EditKeeps ==
  ASSUME NEW t \in Texts, NEW key \in Printable \cup {"backspace"}
  PROVE  Edit(t, key) \in Texts
<1>0. limit \in Nat /\ Len(t) \in Nat /\ t \in Seq(Printable) /\ Len(t) <= limit
  BY InputAssumption DEF limit, Texts
<1>1. CASE key = "backspace"
  <2>1. SubSeq(t, 1, Len(t) - 1) \in Seq(Printable) /\ Len(SubSeq(t, 1, Len(t) - 1)) <= Len(t)
    <3>1. \A i \in 1 .. Len(t) - 1 : t[i] \in Printable
      BY <1>0
    <3>2. /\ SubSeq(t, 1, Len(t) - 1) \in Seq(Printable)
          /\ Len(SubSeq(t, 1, Len(t) - 1)) = IF 1 <= Len(t) - 1 THEN Len(t) - 1 - 1 + 1 ELSE 0
      BY <1>0, <3>1, 1 \in Int, Len(t) - 1 \in Int, SubSeqProperties
    <3> QED BY <1>0, <3>2
  <2> QED BY <1>0, <1>1, <2>1 DEF Edit, Texts
<1>2. CASE key # "backspace"
  <2>1. key \in Printable
    BY <1>2
  <2> QED BY <1>0, <1>2, <2>1 DEF Edit, Texts
<1> QED BY <1>1, <1>2

LEMMA ElementsOf ==
  ASSUME NEW S, NEW t \in Seq(S)
  PROVE  \A k \in DOMAIN t : t[k] \in S
OBVIOUS

(* What stays of the tokens when there are too many.                       *)
Kept(found) == IF HasRoom(found) THEN found ELSE SubSeq(found, 1, MAX_TOKENS)

LEMMA KeptStay ==
  ASSUME NEW found \in Seq(0 .. limit)
  PROVE  Kept(found) \in Seq(0 .. limit) /\ Len(Kept(found)) <= MAX_TOKENS
<1>0. MAX_TOKENS \in Nat /\ 1 <= MAX_TOKENS /\ Len(found) \in Nat
  BY InputAssumption
<1>1. CASE HasRoom(found)
  BY <1>1 DEF Kept, HasRoom
<1>2. CASE ~HasRoom(found)
  <2> DEFINE q == SubSeq(found, 1, MAX_TOKENS)
  <2>1. MAX_TOKENS < Len(found)
    BY <1>0, <1>2 DEF HasRoom
  <2>2. ASSUME NEW i \in 1 .. MAX_TOKENS PROVE found[i] \in 0 .. limit
    <3>1. i \in 1 .. Len(found)
      BY <1>0, <2>1
    <3>2. DOMAIN found = 1 .. Len(found)
      OBVIOUS
    <3> QED BY <3>1, <3>2, ElementsOf
  <2>3. /\ q \in Seq(0 .. limit)
        /\ Len(q) = IF 1 <= MAX_TOKENS THEN MAX_TOKENS - 1 + 1 ELSE 0
    BY <1>0, <2>2, 1 \in Int, MAX_TOKENS \in Int, SubSeqProperties
  <2> HIDE DEF q
  <2>4. Kept(found) = q
    BY <1>2 DEF Kept, q
  <2> QED BY <1>0, <2>3, <2>4
<1> QED BY <1>1, <1>2

-----------------------------------------------------------------------------
(* The invariants: when enter has been pressed the array holds a string;   *)
(* while the program runs the terminal is in its mode and the one to go    *)
(* back to is known; once it has ended the terminal is back in that.       *)

InputInv ==
  /\ InputTypeOK
  /\ shown \in Texts /\ tokens \in Seq(0 .. limit)
  /\ phase = "entered" => Terminated(input)

ModesInv ==
  /\ phase \in {"reading", "entered", "dispatching", "overrun"} =>
       terminal = "keys" /\ raw_mode_active /\ original_termios = before
  /\ phase = "ended" => terminal = before /\ ~raw_mode_active

LEMMA EmptyText == <<>> \in Texts /\ <<>> \in Seq(0 .. limit) /\ Len(<<>>) = 0 /\ ToSet(<<>>) = {}
BY InputAssumption DEF limit, Texts, ToSet

LEMMA TextElements == \A t \in Texts : ToSet(t) \subseteq Printable /\ Len(t) <= limit
BY DEF Texts, ToSet

LEMMA InputInvInit == Init => InputInv /\ ModesInv
<1>1. limit \in Nat /\ MAX_TOKENS \in Nat
  BY InputAssumption DEF limit
<1> SUFFICES ASSUME Init PROVE InputInv /\ ModesInv
  OBVIOUS
<1>2. input = [i \in 0 .. limit |-> NUL] /\ pos = 0 /\ tokens = <<>> /\ shown = <<>>
  BY DEF Init, Filled
<1>3. /\ DOMAIN tokens = {} /\ Len(tokens) = 0 /\ ToSet(shown) = {} /\ Len(shown) = 0
      /\ shown \in Texts /\ tokens \in Seq(0 .. limit)
  BY <1>2, EmptyText
<1>4. input \in Arrays /\ pos \in 0 .. limit
  BY <1>1, <1>2 DEF Arrays
<1>5. /\ phase = "off" /\ attached = TRUE /\ raw_mode_active = FALSE
      /\ terminal = "lines" /\ before = "lines" /\ original_termios = "zeroed"
  BY DEF Init
<1>6. InputTypeOK
  <2>1. /\ Len(tokens) <= MAX_TOKENS /\ \A k \in DOMAIN tokens : tokens[k] \in 0 .. limit
        /\ ToSet(shown) \subseteq Printable /\ Len(shown) <= limit
    <3>1. \A i, j \in Nat : i = 0 => i <= j
      OBVIOUS
    <3> QED BY ONLY <1>1, <1>3, <3>1
  <2> QED BY <1>4, <1>5, <2>1 DEF InputTypeOK, Arrays
<1> QED BY <1>3, <1>5, <1>6 DEF InputInv, ModesInv

LEMMA InputInvNext == InputInv /\ ModesInv /\ [Next]_vars => InputInv'
<1> SUFFICES ASSUME InputInv, ModesInv, [Next]_vars PROVE InputInv'
  OBVIOUS
<1> USE DEF InputInv, InputTypeOK
<1>0. limit \in Nat /\ MAX_TOKENS \in Nat /\ input \in Arrays /\ input = [i \in 0 .. limit |-> input[i]]
  BY InputAssumption DEF limit, Arrays
<1>a. \A t \in Texts : ToSet(t) \subseteq Printable /\ Len(t) <= limit
  BY TextElements
<1>c. shown \in Texts /\ tokens \in Seq(0 .. limit) /\ Len(tokens) <= MAX_TOKENS
  OBVIOUS
<1>1. ASSUME NEW key \in Printable, PrintableKey(key) PROVE InputInv'
  <2>2. shown' \in Texts
    BY <1>1, EditKeeps DEF PrintableKey
  <2>3. input' \in Arrays /\ pos' \in 0 .. limit
    <3>1. CASE Fits
      <4>1. input' = [input EXCEPT ![pos] = key] /\ pos' = pos + 1 /\ pos < limit
        BY <1>1, <3>1 DEF PrintableKey, Fits
      <4> QED BY <1>0, <4>1 DEF Arrays
    <3>2. CASE ~Fits
      BY <1>0, <1>1, <3>2 DEF PrintableKey
    <3> QED BY <3>1, <3>2
  <2>4. phase = "reading" /\ UNCHANGED <<tokens, phase, attached, modes>>
    BY <1>1 DEF PrintableKey, Reads
  <2> QED BY <1>a, <2>2, <2>3, <2>4 DEF modes, Arrays
<1>2. CASE BackspaceKey
  <2>1. shown' \in Texts
    BY <1>2, EditKeeps DEF BackspaceKey
  <2>2. pos' \in 0 .. limit
    BY <1>0, <1>2 DEF BackspaceKey, Back
  <2>3. phase = "reading" /\ UNCHANGED <<input, tokens, phase, attached, modes>>
    BY <1>2 DEF BackspaceKey, Reads
  <2> QED BY <1>a, <2>1, <2>2, <2>3 DEF modes
<1>3. CASE ControlKey
  BY <1>3 DEF ControlKey, vars, modes, Terminated
<1>4. CASE EnterKey
  <2>1. input' \in Arrays /\ input'[pos] = NUL /\ pos' = 0 /\ phase' = "entered"
    BY <1>0, <1>4 DEF EnterKey, Arrays
  <2>2. Terminated(input)'
    BY <2>1 DEF Terminated
  <2> QED BY <1>0, <1>4, <2>1, <2>2 DEF EnterKey, modes, Arrays
<1>5. CASE Parse
  <2> DEFINE trimmed == my_str_trim(input)
             cut == my_tokenize(trimmed).cut
             found == my_tokenize(trimmed).found
  <2>1. trimmed \in Arrays /\ Terminated(trimmed)
    BY <1>0, <1>5, TrimStays DEF Parse
  <2>2. cut \in Arrays /\ found \in Seq(0 .. limit)
    BY <2>1, TokensStay
  <2>3. \/ /\ input' = trimmed /\ phase' = "reading" /\ shown' = <<>> /\ tokens' = tokens
        \/ /\ input' = cut /\ phase' \in {"dispatching", "overrun"} /\ shown' = shown
           /\ tokens' = Kept(found)
    BY <1>5 DEF Parse, Kept
  <2>4. UNCHANGED <<pos, attached, modes>>
    BY <1>5 DEF Parse
  <2> HIDE DEF trimmed, cut, found
  <2>5. input' \in Arrays /\ phase' \in {"reading", "dispatching", "overrun"}
    BY <2>1, <2>2, <2>3
  <2>6. tokens' \in Seq(0 .. limit) /\ Len(tokens') <= MAX_TOKENS
    <3>1. Kept(found) \in Seq(0 .. limit) /\ Len(Kept(found)) <= MAX_TOKENS
      BY ONLY <2>2, KeptStay
    <3> QED BY ONLY <1>c, <2>3, <3>1
  <2>7. shown' \in Texts
    BY <1>c, <2>3, EmptyText
  <2>8. \A k \in DOMAIN tokens' : tokens'[k] \in 0 .. limit
    BY ONLY <2>6, ElementsOf
  <2> QED BY <1>a, <2>4, <2>5, <2>6, <2>7, <2>8 DEF modes, Arrays
<1>6. CASE Dispatch
  <2>1. shown' \in Texts
    BY <1>6, EmptyText DEF Dispatch
  <2>2. /\ phase' \in {"ended", "reading"}
        /\ terminal' \in {terminal, original_termios}
        /\ raw_mode_active' \in BOOLEAN
        /\ UNCHANGED <<input, pos, tokens, attached, original_termios, before>>
    BY <1>6 DEF Dispatch, Restored
  <2>3. original_termios = before
    BY <1>6 DEF Dispatch, ModesInv
  <2> QED BY <1>a, <2>1, <2>2, <2>3
<1>7. CASE InputEnds
  BY <1>7 DEF InputEnds, modes
<1>8. CASE Boots
  BY <1>0, <1>8 DEF Boots, keyboard_init, Filled
<1>9. ASSUME Cleared, terminal' \in {"lines", "keys"} PROVE InputInv'
  <2>1. tokens' \in Seq(0 .. limit) /\ shown' \in Texts /\ Len(tokens') <= MAX_TOKENS
    BY <1>0, <1>9, EmptyText DEF Cleared
  <2>2. \A k \in DOMAIN tokens' : tokens'[k] \in 0 .. limit
    BY ONLY <2>1, ElementsOf
  <2>3. input' \in Arrays /\ pos' \in 0 .. limit
    BY <1>0, <1>9 DEF Cleared, Filled, Arrays
  <2>4. /\ phase' = "off" /\ attached' = TRUE /\ before' = before
        /\ original_termios' = "zeroed" /\ raw_mode_active' = FALSE
    BY <1>9 DEF Cleared
  <2> QED BY <1>9, <1>a, <2>1, <2>2, <2>3, <2>4 DEF Arrays
<1>10. CASE MainReturns \/ Dies
  BY <1>9, <1>10 DEF MainReturns, Dies, Restored, ModesInv
<1>11. CASE UNCHANGED vars
  BY <1>11 DEF vars, modes, Terminated
<1> QED BY <1>1, <1>2, <1>3, <1>4, <1>5, <1>6, <1>7, <1>8, <1>9, <1>10, <1>11 DEF Next

LEMMA ModesInvNext == ModesInv /\ [Next]_vars => ModesInv'
<1> SUFFICES ASSUME ModesInv, [Next]_vars PROVE ModesInv'
  OBVIOUS
<1> USE DEF ModesInv
<1>1. ASSUME NEW key \in Printable, PrintableKey(key) PROVE ModesInv'
  BY <1>1 DEF PrintableKey, modes
<1>2. CASE BackspaceKey \/ EnterKey \/ InputEnds
  BY <1>2 DEF BackspaceKey, EnterKey, InputEnds, Reads, modes
<1>3. CASE Parse
  BY <1>3 DEF Parse, modes
<1>4. CASE Dispatch
  BY <1>4 DEF Dispatch, Restored
<1>5. CASE Boots
  BY <1>5 DEF Boots, keyboard_init
<1>6. CASE MainReturns \/ Dies
  BY <1>6 DEF MainReturns, Dies, Cleared
<1>7. CASE ControlKey \/ UNCHANGED vars
  BY <1>7 DEF ControlKey, vars, modes
<1> QED BY <1>1, <1>2, <1>3, <1>4, <1>5, <1>6, <1>7 DEF Next

-----------------------------------------------------------------------------
(* The first elements of a list in ascending order, counted.               *)
Ascending(q, N) == N \in Nat /\ q \in [1 .. N -> Nat] /\ \A i, j \in 1 .. N : i < j => q[i] < q[j]

LEMMA CountedInOrder ==
  ASSUME NEW N, NEW q, Ascending(q, N), NEW S, S = {q[k] : k \in 1 .. N}
  PROVE  /\ Cardinality(S) = N
         /\ \A k \in 1 .. N : Cardinality({i \in S : i <= q[k]}) = k
<1> DEFINE First(k) == {q[j] : j \in 1 .. k}
<1>1. ASSUME NEW k \in 0 .. N PROVE Cardinality(First(k)) = k
  <2> DEFINE f == [j \in 1 .. k |-> q[j]]
  <2>1. N \in Nat /\ k \in Nat /\ k \in Int /\ \A j \in 1 .. k : j \in 1 .. N
    BY DEF Ascending
  <2>2. IsFiniteSet(1 .. k) /\ Cardinality(1 .. k) = k
    <3>1. IsFiniteSet(1 .. k) /\ Cardinality(1 .. k) = IF 1 > k THEN 0 ELSE k - 1 + 1
      BY <2>1, 1 \in Int, FS_Interval
    <3> QED BY <2>1, <3>1
  <2>3. f \in [1 .. k -> First(k)]
    OBVIOUS
  <2>4. \A a, b \in 1 .. k : f[a] = f[b] => a = b
    <3> SUFFICES ASSUME NEW a \in 1 .. k, NEW b \in 1 .. k, q[a] = q[b], a # b PROVE FALSE
      OBVIOUS
    <3>1. a \in 1 .. N /\ b \in 1 .. N /\ (a < b \/ b < a)
      BY <2>1
    <3>2. q[a] \in Nat /\ q[b] \in Nat /\ (q[a] < q[b] \/ q[b] < q[a])
      BY <3>1 DEF Ascending
    <3> QED BY <3>2
  <2>5. \A v \in First(k) : \E a \in 1 .. k : f[a] = v
    OBVIOUS
  <2> HIDE DEF f, First
  <2>6. f \in Bijection(1 .. k, First(k))
    <3>1. f \in Injection(1 .. k, First(k))
      BY ONLY <2>3, <2>4 DEF Injection, IsInjective
    <3>2. f \in Surjection(1 .. k, First(k))
      BY ONLY <2>3, <2>5 DEF Surjection
    <3> QED BY ONLY <3>1, <3>2 DEF Bijection
  <2>7. ExistsBijection(1 .. k, First(k))
    BY <2>6 DEF ExistsBijection
  <2> QED BY <2>2, <2>7, FS_Bijection
<1>2. N \in 0 .. N /\ \A k \in 1 .. N : k \in 0 .. N
  BY DEF Ascending
<1>3. ASSUME NEW k \in 1 .. N PROVE {i \in S : i <= q[k]} = First(k)
  <2>1. N \in Nat /\ \A j \in 1 .. k : j \in 1 .. N
    BY DEF Ascending
  <2>2. \A j \in 1 .. N : q[j] \in Nat /\ (j < k => q[j] < q[k]) /\ (k < j => q[k] < q[j])
    BY DEF Ascending
  <2>3. \A j \in 1 .. N : q[j] <= q[k] <=> j <= k
    <3> SUFFICES ASSUME NEW j \in 1 .. N PROVE q[j] <= q[k] <=> j <= k
      OBVIOUS
    <3>1. j < k \/ j = k \/ k < j
      BY <2>1
    <3> QED BY <2>1, <2>2, <3>1
  <2>4. \A j \in 1 .. N : j <= k <=> j \in 1 .. k
    BY <2>1
  <2> QED BY <2>1, <2>3, <2>4
<1> HIDE DEF First
<1>4. S = First(N)
  BY DEF First
<1> QED BY <1>1, <1>2, <1>3, <1>4

-----------------------------------------------------------------------------
(* The words of a text, as a list of N of them with the places where each  *)
(* begins and ends.                                                        *)
BeginsAt(t, i) == i \in 1 .. Len(t) /\ t[i] # BLANK /\ (i = 1 \/ t[i - 1] = BLANK)

WordAt(t, b, e) ==
  /\ BeginsAt(t, b) /\ e \in b .. Len(t)
  /\ \A j \in b .. e : t[j] # BLANK
  /\ e = Len(t) \/ t[e + 1] = BLANK

WordList(t, N, from, upto) ==
  /\ Ascending(from, N)
  /\ \A k \in 1 .. N : WordAt(t, from[k], upto[k])
  /\ \A i \in 1 .. Len(t) : BeginsAt(t, i) => \E k \in 1 .. N : from[k] = i

InWord(t, i) == i \in 1 .. Len(t) /\ t[i] # BLANK
StartsOf(t) == {i \in 1 .. Len(t) : InWord(t, i) /\ ~InWord(t, i - 1)}
EndFrom(t, i) == CHOOSE e \in i .. Len(t) : ~InWord(t, e + 1) /\ \A j \in i .. e : InWord(t, j)
NthStart(t, k) == CHOOSE i \in StartsOf(t) : Cardinality({j \in StartsOf(t) : j <= i}) = k

LEMMA WordsInParts ==
  ASSUME NEW t
  PROVE  Words(t) = [k \in 1 .. Cardinality(StartsOf(t)) |->
                       SubSeq(t, NthStart(t, k), EndFrom(t, NthStart(t, k)))]
BY DEF Words, StartsOf, InWord, EndFrom, NthStart

LEMMA WordsAreListed ==
  ASSUME NEW t \in Seq(Printable), NEW N, NEW from, NEW upto, WordList(t, N, from, upto)
  PROVE  Words(t) = [k \in 1 .. N |-> SubSeq(t, from[k], upto[k])]
<1> DEFINE S == StartsOf(t)
           Upto(i) == {j \in S : j <= i}
<1>0. Len(t) \in Nat /\ N \in Nat /\ \A k \in 1 .. N : from[k] \in Nat
  BY DEF WordList, Ascending
<1>1. \A i \in 1 .. Len(t) : i \in S <=> BeginsAt(t, i)
  <2> SUFFICES ASSUME NEW i \in 1 .. Len(t) PROVE i \in S <=> BeginsAt(t, i)
    OBVIOUS
  <2>1. i - 1 \in 1 .. Len(t) <=> i # 1
    BY <1>0
  <2> QED BY <2>1 DEF BeginsAt, StartsOf, InWord
<1>2. S \subseteq 1 .. Len(t)
  BY DEF StartsOf
<1>3. \A k \in 1 .. N : from[k] \in 1 .. Len(t) /\ BeginsAt(t, from[k])
  BY DEF WordList, WordAt, BeginsAt
<1> HIDE DEF S
<1>4. S = {from[k] : k \in 1 .. N}
  <2>1. \A i \in S : \E k \in 1 .. N : from[k] = i
    BY <1>1, <1>2 DEF WordList
  <2> QED BY <1>1, <1>3, <2>1
<1>5. Ascending(from, N)
  BY DEF WordList
<1>6. Cardinality(S) = N /\ \A k \in 1 .. N : Cardinality(Upto(from[k])) = k
  BY <1>4, <1>5, CountedInOrder
<1> HIDE DEF Upto
<1>7. ASSUME NEW k \in 1 .. N PROVE NthStart(t, k) = from[k]
  <2> DEFINE c == CHOOSE i \in S : Cardinality(Upto(i)) = k
  <2>1. from[k] \in S
    BY <1>4
  <2>2. c \in S /\ Cardinality(Upto(c)) = k
    BY <1>6, <2>1
  <2>3. NthStart(t, k) = c
    BY DEF NthStart, S, Upto
  <2> HIDE DEF c
  <2>4. PICK j \in 1 .. N : c = from[j]
    BY <1>4, <2>2
  <2>5. j = k
    BY <1>6, <2>2, <2>4
  <2> QED BY <2>3, <2>4, <2>5
<1>8. ASSUME NEW k \in 1 .. N PROVE EndFrom(t, from[k]) = upto[k]
  <2> DEFINE b == from[k]
             e == upto[k]
             Ends(x) == ~InWord(t, x + 1) /\ \A j \in b .. x : InWord(t, j)
             c == CHOOSE x \in b .. Len(t) : Ends(x)
  <2>1. WordAt(t, b, e)
    BY DEF WordList
  <2>2. b \in 1 .. Len(t) /\ e \in b .. Len(t)
    BY <2>1 DEF WordAt, BeginsAt
  <2> HIDE DEF b, e
  <2>3. Ends(e)
    <3>1. \A j \in b .. e : j \in 1 .. Len(t)
      BY <1>0, <2>2
    <3>2. e + 1 \in 1 .. Len(t) => e # Len(t)
      BY <1>0, <2>2
    <3> QED BY <2>1, <3>1, <3>2 DEF WordAt, InWord
  <2>4. c \in b .. Len(t) /\ Ends(c)
    <3> HIDE DEF Ends
    <3> QED BY <2>2, <2>3
  <2>5. EndFrom(t, from[k]) = c
    BY DEF EndFrom, b
  <2> HIDE DEF c
  <2>6. ~(c < e)
    <3> SUFFICES ASSUME c < e PROVE FALSE
      OBVIOUS
    <3>1. c + 1 \in b .. e
      BY <1>0, <2>2, <2>4
    <3> QED BY <2>3, <2>4, <3>1
  <2>7. ~(e < c)
    <3> SUFFICES ASSUME e < c PROVE FALSE
      OBVIOUS
    <3>1. e + 1 \in b .. c
      BY <1>0, <2>2, <2>4
    <3> QED BY <2>3, <2>4, <3>1
  <2> QED BY <1>0, <2>2, <2>4, <2>5, <2>6, <2>7 DEF e
<1>9. Words(t) = [k \in 1 .. N |-> SubSeq(t, NthStart(t, k), EndFrom(t, NthStart(t, k)))]
  BY <1>6, WordsInParts DEF S
<1> QED BY <1>7, <1>8, <1>9

(* A text of blanks has no words. *)
LEMMA BlanksHaveNoWords ==
  ASSUME NEW t \in Seq(Printable), \A i \in 1 .. Len(t) : t[i] = BLANK
  PROVE  Words(t) = <<>>
<1>1. WordList(t, 0, <<>>, <<>>)
  BY DEF WordList, Ascending, BeginsAt
<1>2. Words(t) = [k \in 1 .. 0 |-> SubSeq(t, <<>>[k], <<>>[k])]
  BY <1>1, WordsAreListed
<1> QED BY <1>2

-----------------------------------------------------------------------------
(* Texts in arrays.  The first terminator ends a string.                   *)
LEMMA StrlenIs ==
  ASSUME NEW s, NEW from \in 0 .. limit, NEW e \in from .. limit,
         s[e] = NUL, \A j \in from .. e - 1 : s[j] # NUL
  PROVE  my_strlen(s, from) = e - from
<1> DEFINE IsEnd(i) == s[i] = NUL /\ \A j \in from .. i - 1 : s[j] # NUL
           c == CHOOSE i \in from .. limit : IsEnd(i)
<1>0. limit \in Nat
  BY InputAssumption DEF limit
<1>1. c \in from .. limit /\ IsEnd(c)
  <2>1. e \in from .. limit /\ IsEnd(e)
    OBVIOUS
  <2> HIDE DEF IsEnd
  <2> QED BY <2>1
<1>2. my_strlen(s, from) = c - from
  BY DEF my_strlen
<1> HIDE DEF c
<1>3. ~(c < e)
  <2> SUFFICES ASSUME c < e PROVE FALSE
    OBVIOUS
  <2>1. c \in from .. e - 1
    BY <1>0, <1>1
  <2> QED BY <1>1, <2>1
<1>4. ~(e < c)
  <2> SUFFICES ASSUME e < c PROVE FALSE
    OBVIOUS
  <2>1. e \in from .. c - 1
    BY <1>0, <1>1
  <2> QED BY <1>1, <2>1
<1> QED BY <1>0, <1>1, <1>2, <1>3, <1>4

LEMMA NoTerminatorTyped == NUL \notin Printable /\ BLANK # NUL /\ BLANK \in Printable
BY LettersAssumption DEF NUL, BLANK, Printable

(* The array begins with the text, and a string of it if a terminator      *)
(* follows.                                                                *)
Begins(s, t) == \A i \in 1 .. Len(t) : s[i - 1] = t[i]
Holds(s, t) == Begins(s, t) /\ s[Len(t)] = NUL

LEMMA HeldLength ==
  ASSUME NEW s, NEW t \in Texts, Holds(s, t)
  PROVE  my_strlen(s, 0) = Len(t)
<1>0. limit \in Nat /\ Len(t) \in 0 .. limit /\ \A i \in 1 .. Len(t) : t[i] \in Printable
  BY InputAssumption DEF limit, Texts
<1>1. ASSUME NEW j \in 0 .. Len(t) - 1 PROVE s[j] # NUL
  <2>1. j + 1 \in 1 .. Len(t) /\ (j + 1) - 1 = j
    BY <1>0
  <2>2. s[j] = t[j + 1]
    BY <2>1 DEF Holds, Begins
  <2> QED BY <1>0, <2>1, <2>2, NoTerminatorTyped
<1>2. 0 \in 0 .. limit
  BY <1>0
<1>3. my_strlen(s, 0) = Len(t) - 0
  BY <1>0, <1>1, <1>2, StrlenIs DEF Holds
<1> QED BY <1>0, <1>3

(* The part of a text without the blanks around it: m characters after the *)
(* first a.                                                                *)
Trims(t, a, m) ==
  /\ a \in Nat /\ m \in Nat /\ a + m <= Len(t)
  /\ \A j \in 1 .. a : t[j] = BLANK
  /\ \A j \in a + m + 1 .. Len(t) : t[j] = BLANK

HoldsPart(s, t, a, m) ==
  /\ Trims(t, a, m)
  /\ \A i \in 0 .. m - 1 : s[i] = t[a + i + 1]
  /\ s[m] = NUL

LEMMA TrimmingTrims ==
  ASSUME NEW s \in Arrays, NEW t \in Texts, Holds(s, t)
  PROVE  \E a, m \in Nat : /\ HoldsPart(my_str_trim(s), t, a, m)
                           /\ m # 0 => t[a + 1] # BLANK
<1> DEFINE n == Len(t)
           start == TrimStart(s)
           end == TrimEnd(s, start)
           u == my_str_trim(s)
           m == end - start + 1
<1>0. limit \in Nat /\ n \in 0 .. limit
  BY InputAssumption DEF limit, Texts
<1>1. my_strlen(s, 0) = n /\ Terminated(s)
  BY <1>0, HeldLength DEF Holds, Terminated
<1>2. start \in 0 .. n /\ s[start] # BLANK /\ \A j \in 0 .. start - 1 : s[j] = BLANK
  BY <1>1, TrimStartStops
<1>3. end \in start - 1 .. n - 1 /\ \A j \in end + 1 .. n - 1 : s[j] = BLANK
  BY <1>1, <1>2, TrimEndStops
<1>4. u = IF n = 0 THEN s ELSE Shifted(s, start, end)
  BY <1>1 DEF my_str_trim
<1>5. DOMAIN s = 0 .. limit
  BY DEF Arrays
<1>6. \A i \in 0 .. n - 1 : s[i] = t[i + 1]
  <2> SUFFICES ASSUME NEW i \in 0 .. n - 1 PROVE s[i] = t[i + 1]
    OBVIOUS
  <2>1. i + 1 \in 1 .. n /\ (i + 1) - 1 = i
    BY <1>0
  <2> QED BY <2>1 DEF Holds, Begins
<1> HIDE DEF n, start, end, u
<1>7. m \in Nat /\ start \in Nat /\ start + m <= n
  BY <1>0, <1>2, <1>3
<1>8. ASSUME NEW j \in 1 .. start PROVE t[j] = BLANK
  <2>1. j - 1 \in 0 .. start - 1 /\ j - 1 \in 0 .. n - 1 /\ (j - 1) + 1 = j
    BY <1>0, <1>2
  <2>2. s[j - 1] = BLANK /\ s[j - 1] = t[(j - 1) + 1]
    BY <1>2, <1>6, <2>1
  <2> QED BY <2>1, <2>2
<1>9. ASSUME NEW j \in start + m + 1 .. n PROVE t[j] = BLANK
  <2>1. j - 1 \in end + 1 .. n - 1 /\ j - 1 \in 0 .. n - 1 /\ (j - 1) + 1 = j
    BY <1>0, <1>2, <1>3
  <2>2. s[j - 1] = BLANK /\ s[j - 1] = t[(j - 1) + 1]
    BY <1>3, <1>6, <2>1
  <2> QED BY <2>1, <2>2
<1>10. Trims(t, start, m)
  BY <1>7, <1>8, <1>9 DEF Trims, n
<1>11. CASE n = 0
  <2>1. m = 0 /\ start = 0
    BY <1>2, <1>3, <1>11
  <2>2. u[m] = NUL
    BY <1>4, <1>11, <2>1 DEF Holds, n
  <2> QED BY <1>7, <1>10, <2>1, <2>2 DEF HoldsPart, u
<1>12. CASE n # 0
  <2>1. u = Shifted(s, start, end)
    BY <1>4, <1>12
  <2>2. m \in 0 .. limit /\ ~(m <= end - start) /\ m = end - start + 1
    BY <1>0, <1>2, <1>3
  <2>3. u[m] = NUL
    BY <1>5, <2>1, <2>2 DEF Shifted
  <2>4. ASSUME NEW i \in 0 .. m - 1 PROVE u[i] = t[start + i + 1]
    <3>1. i \in 0 .. limit /\ i <= end - start /\ start + i \in 0 .. n - 1
      BY <1>0, <1>2, <1>3
    <3>2. u[i] = s[start + i]
      BY <1>5, <2>1, <3>1 DEF Shifted
    <3> QED BY <1>6, <3>1, <3>2
  <2> HIDE DEF m
  <2>5. HoldsPart(u, t, start, m)
    BY <1>10, <2>3, <2>4 DEF HoldsPart
  <2>6. m # 0 => t[start + 1] # BLANK
    <3>1. m # 0 => start \in 0 .. n - 1
      BY <1>0, <1>2, <1>7
    <3> QED BY <1>2, <1>6, <3>1
  <2> QED BY <1>7, <2>5, <2>6 DEF u, m
<1> QED BY <1>11, <1>12

LEMMA PartLength ==
  ASSUME NEW s, NEW t \in Texts, NEW a, NEW m, HoldsPart(s, t, a, m)
  PROVE  my_strlen(s, 0) = m /\ \A i \in 0 .. m - 1 : s[i] \in Printable
<1>0. /\ limit \in Nat /\ Len(t) \in 0 .. limit /\ \A i \in 1 .. Len(t) : t[i] \in Printable
      /\ a \in Nat /\ m \in Nat /\ a + m <= Len(t) /\ m \in 0 .. limit
  BY InputAssumption DEF limit, Texts, HoldsPart, Trims
<1>1. ASSUME NEW i \in 0 .. m - 1 PROVE s[i] \in Printable
  <2>1. a + i + 1 \in 1 .. Len(t)
    BY <1>0
  <2> QED BY <1>0, <2>1 DEF HoldsPart
<1>2. \A i \in 0 .. m - 1 : s[i] # NUL
  BY <1>1, NoTerminatorTyped
<1>3. my_strlen(s, 0) = m - 0
  BY <1>0, <1>2, StrlenIs DEF HoldsPart
<1> QED BY <1>0, <1>1, <1>3

(* A line of which trimming leaves nothing was nothing but blanks.         *)
LEMMA BlankLines ==
  ASSUME NEW s \in Arrays, NEW t \in Texts, Holds(s, t), my_strlen(my_str_trim(s), 0) = 0
  PROVE  Words(t) = <<>>
<1>1. PICK a, m \in Nat : HoldsPart(my_str_trim(s), t, a, m)
  BY TrimmingTrims
<1>2. m = 0
  BY <1>1, PartLength
<1>3. ASSUME NEW i \in 1 .. Len(t) PROVE t[i] = BLANK
  <2>1. Len(t) \in Nat
    BY DEF Texts
  <2>2. i \in 1 .. a \/ i \in a + m + 1 .. Len(t)
    BY <1>2, <2>1
  <2> QED BY <1>1, <2>2 DEF HoldsPart, Trims
<1> QED BY <1>3, BlanksHaveNoWords DEF Texts

-----------------------------------------------------------------------------
(* What the rounds of my_tokenize have found: where words begin.           *)
TokenAt(s, j) == s[j] # BLANK /\ (j = 0 \/ s[j - 1] = BLANK)

FoundUpTo(s, n, found) ==
  LET q == found.starts
  IN /\ found.in_token <=> (n # 0 /\ s[n - 1] # BLANK)
     /\ q \in Seq(Nat) /\ Ascending(q, Len(q))
     /\ \A k \in 1 .. Len(q) : q[k] \in 0 .. n - 1 /\ TokenAt(s, q[k])
     /\ \A j \in 0 .. n - 1 : TokenAt(s, j) => \E k \in 1 .. Len(q) : q[k] = j

LEMMA RoundFinds ==
  ASSUME NEW s, NEW n \in Nat, NEW found, FoundUpTo(s, n, found)
  PROVE  FoundUpTo(s, n + 1, FoundRound(found, s[n], n))
<1> DEFINE q == found.starts
           next == FoundRound(found, s[n], n)
           longer == Append(q, n)
<1>0. /\ found.in_token <=> (n # 0 /\ s[n - 1] # BLANK)
      /\ q \in Seq(Nat) /\ Len(q) \in Nat /\ \A k \in 1 .. Len(q) : q[k] \in Nat
      /\ \A i, j \in 1 .. Len(q) : i < j => q[i] < q[j]
      /\ \A k \in 1 .. Len(q) : q[k] \in 0 .. n - 1 /\ TokenAt(s, q[k])
      /\ \A j \in 0 .. n - 1 : TokenAt(s, j) => \E k \in 1 .. Len(q) : q[k] = j
  BY DEF FoundUpTo, Ascending
<1>1. next.in_token = (s[n] # BLANK)
  BY DEF FoundRound
<1>2. next.starts = IF TokenAt(s, n) THEN longer ELSE q
  <2>1. TokenAt(s, n) <=> s[n] # BLANK /\ ~found.in_token
    BY <1>0 DEF TokenAt
  <2>2. next.starts = IF s[n] # BLANK /\ ~found.in_token THEN longer ELSE q
    BY DEF FoundRound
  <2> QED BY <2>1, <2>2
<1>3. next.in_token <=> (n + 1 # 0 /\ s[(n + 1) - 1] # BLANK)
  <2>1. (n + 1) - 1 = n /\ n + 1 # 0
    OBVIOUS
  <2> QED BY <1>1, <2>1
<1>4. \A j \in 0 .. (n + 1) - 1 : j \in 0 .. n - 1 \/ j = n
  OBVIOUS
<1> HIDE DEF next, q
<1>5. CASE ~TokenAt(s, n)
  <2>1. next.starts = q
    BY <1>2, <1>5
  <2>2. \A k \in 1 .. Len(q) : q[k] \in 0 .. (n + 1) - 1 /\ TokenAt(s, q[k])
    BY <1>0
  <2>3. \A j \in 0 .. (n + 1) - 1 : TokenAt(s, j) => \E k \in 1 .. Len(q) : q[k] = j
    BY <1>0, <1>4, <1>5
  <2>4. Ascending(q, Len(q))
    BY <1>0 DEF Ascending
  <2> QED BY <1>0, <1>3, <2>1, <2>2, <2>3, <2>4 DEF FoundUpTo, next
<1>6. CASE TokenAt(s, n)
  <2>1. next.starts = longer
    BY <1>2, <1>6
  <2>2. /\ longer \in Seq(Nat) /\ Len(longer) = Len(q) + 1 /\ longer[Len(q) + 1] = n
        /\ \A k \in 1 .. Len(q) : longer[k] = q[k]
    BY <1>0
  <2> HIDE DEF longer
  <2>3. \A k \in 1 .. Len(q) + 1 : k \in 1 .. Len(q) \/ k = Len(q) + 1
    <3>1. \A i \in Nat : \A k \in 1 .. i + 1 : k \in 1 .. i \/ k = i + 1
      OBVIOUS
    <3> QED BY ONLY <1>0, <3>1
  <2>4. ASSUME NEW k \in 1 .. Len(q) + 1
        PROVE  longer[k] \in 0 .. (n + 1) - 1 /\ TokenAt(s, longer[k])
    <3>1. CASE k \in 1 .. Len(q)
      BY <1>0, <2>2, <3>1
    <3>2. CASE k = Len(q) + 1
      BY <1>6, <2>2, <3>2
    <3> QED BY <2>3, <3>1, <3>2
  <2>5. ASSUME NEW j \in 0 .. (n + 1) - 1, TokenAt(s, j)
        PROVE  \E k \in 1 .. Len(q) + 1 : longer[k] = j
    <3>1. CASE j \in 0 .. n - 1
      <4>1. PICK k \in 1 .. Len(q) : q[k] = j
        BY <1>0, <2>5, <3>1
      <4>2. k \in 1 .. Len(q) + 1
        BY <1>0
      <4> QED BY <2>2, <4>1, <4>2
    <3>2. CASE j = n
      <4>1. Len(q) + 1 \in 1 .. Len(q) + 1
        BY <1>0
      <4> QED BY <2>2, <3>2, <4>1
    <3> QED BY <1>4, <3>1, <3>2
  <2>6. ASSUME NEW i \in 1 .. Len(q) + 1, NEW j \in 1 .. Len(q) + 1, i < j
        PROVE  longer[i] < longer[j]
    <3>1. i \in 1 .. Len(q)
      BY <1>0, <2>6
    <3>2. longer[i] = q[i] /\ q[i] < n
      BY <1>0, <2>2, <3>1
    <3>3. CASE j \in 1 .. Len(q)
      BY <1>0, <2>2, <2>6, <3>1, <3>3
    <3>4. CASE j = Len(q) + 1
      BY <2>2, <3>2, <3>4
    <3> QED BY <2>3, <3>3, <3>4
  <2>7. Ascending(longer, Len(longer))
    BY <1>0, <2>2, <2>6 DEF Ascending
  <2> QED BY <1>3, <2>1, <2>2, <2>4, <2>5, <2>7 DEF FoundUpTo, next
<1> QED BY <1>5, <1>6

LEMMA RoundsFind ==
  ASSUME NEW s, my_strlen(s, 0) \in Nat
  PROVE  FoundUpTo(s, my_strlen(s, 0), Rounds(s)[my_strlen(s, 0)])
<1> DEFINE len == my_strlen(s, 0)
           R == Rounds(s)
           Right == {n \in 0 .. len : FoundUpTo(s, n, R[n])}
<1>0. len \in Nat
  OBVIOUS
<1>1. R[0] = NoTokens /\ \A n \in 1 .. len : R[n] = FoundRound(R[n - 1], s[n - 1], n - 1)
  BY RoundsStep
<1> HIDE DEF len, R
<1>2. 0 \in Right
  <2>1. FoundUpTo(s, 0, NoTokens)
    <3>1. NoTokens.in_token = FALSE /\ NoTokens.starts = <<>> /\ <<>> \in Seq(Nat) /\ Len(<<>>) = 0
      BY DEF NoTokens
    <3> QED BY <3>1 DEF FoundUpTo, Ascending
  <2> QED BY <1>0, <1>1, <2>1
<1>3. ASSUME NEW n \in 0 .. len - 1, n \in Right PROVE n + 1 \in Right
  <2>1. n \in Nat /\ n + 1 \in 1 .. len /\ n + 1 \in 0 .. len /\ (n + 1) - 1 = n
    BY <1>0
  <2>2. R[n + 1] = FoundRound(R[n], s[n], n)
    BY <1>1, <2>1
  <2>3. FoundUpTo(s, n + 1, R[n + 1])
    BY <1>3, <2>1, <2>2, RoundFinds
  <2> QED BY <2>1, <2>3
<1> HIDE DEF Right
<1>4. \A n \in 0 .. len : n \in Right
  BY <1>0, <1>2, <1>3, InductUpTo
<1>5. len \in 0 .. len
  BY <1>0
<1> QED BY <1>4, <1>5 DEF Right, len, R

(* A word stops at the next blank or the end of the string.                *)
StopsAt(s, m, o, p) ==
  /\ p \in o .. m /\ (p = m \/ s[p] = BLANK) /\ \A j \in o .. p - 1 : s[j] # BLANK

LEMMA WordStops ==
  ASSUME NEW s, NEW m \in Nat, NEW o \in 0 .. m
  PROVE  \E p \in 0 .. m : StopsAt(s, m, o, p)
<1> DEFINE Stops == {p \in o .. m : p = m \/ s[p] = BLANK}
<1>1. Stops \in SUBSET Nat /\ m \in Stops
  OBVIOUS
<1>2. PICK p \in Stops : \A x \in Stops : p <= x
  BY <1>1, LeastNat
<1>3. ASSUME NEW j \in o .. p - 1 PROVE s[j] # BLANK
  <2>1. j \in o .. m /\ ~(p <= j)
    BY <1>1, <1>2
  <2> QED BY <1>2, <2>1
<1> QED BY <1>2, <1>3 DEF StopsAt

(* A stretch of a sequence, position by position.                          *)
LEMMA StretchOf ==
  ASSUME NEW s, NEW m \in Int, NEW n \in Int, NEW c \in Nat, n - m + 1 = c
  PROVE  SubSeq(s, m, n) = [i \in 1 .. c |-> s[m + i - 1]]
<1> DEFINE S == {s[i] : i \in m .. n}
           q == SubSeq(s, m, n)
           r == [i \in 1 .. c |-> s[m + i - 1]]
<1>1. /\ q \in Seq(S) /\ Len(q) = IF m <= n THEN n - m + 1 ELSE 0
      /\ \A i \in 1 .. n - m + 1 : q[i] = s[m + i - 1]
  <2>1. \A i \in m .. n : s[i] \in S
    OBVIOUS
  <2> HIDE DEF S
  <2> QED BY <2>1, SubSeqProperties
<1>2. Len(q) = c
  BY <1>1
<1>3. r \in Seq(S) /\ Len(r) = c
  <2>1. \A i \in 1 .. c : m + i - 1 \in m .. n
    OBVIOUS
  <2> QED BY <2>1
<1>4. \A i \in 1 .. c : q[i] = r[i]
  BY <1>1
<1> HIDE DEF q, r, S
<1>5. q = r
  BY <1>1, <1>2, <1>3, <1>4, SeqEqual
<1> QED BY <1>5 DEF q, r

LEMMA TokensAreWords ==
  ASSUME NEW u \in Arrays, NEW t \in Texts, NEW a, NEW m, HoldsPart(u, t, a, m)
  PROVE  LET found == my_tokenize(u).found
             cut == my_tokenize(u).cut
         IN \E from, upto :
              /\ WordList(t, Len(found), from, upto)
              /\ \A k \in 1 .. Len(found) : StringAt(cut, found[k]) = SubSeq(t, from[k], upto[k])
<1> DEFINE found == my_tokenize(u).found
           cut == my_tokenize(u).cut
           N == Len(found)
           stop == [k \in 1 .. N |-> CHOOSE p \in 0 .. m : StopsAt(u, m, found[k], p)]
           from == [k \in 1 .. N |-> found[k] + a + 1]
           upto == [k \in 1 .. N |-> stop[k] + a]
<1>0. /\ limit \in Nat /\ Len(t) \in 0 .. limit /\ a \in Nat /\ m \in Nat /\ a + m <= Len(t)
      /\ m \in 0 .. limit /\ \A i \in 1 .. Len(t) : t[i] \in Printable
      /\ \A j \in 1 .. a : t[j] = BLANK
      /\ \A j \in a + m + 1 .. Len(t) : t[j] = BLANK
      /\ \A i \in 0 .. m - 1 : u[i] = t[a + i + 1]
      /\ u[m] = NUL
  BY InputAssumption DEF limit, Texts, HoldsPart, Trims
<1>1. my_strlen(u, 0) = m /\ \A i \in 0 .. m - 1 : u[i] \in Printable
  BY PartLength
<1>2. FoundUpTo(u, m, Rounds(u)[m])
  BY <1>0, <1>1, RoundsFind
<1>3. found = Rounds(u)[m].starts
  BY <1>1 DEF my_tokenize
<1>4. cut = [i \in 0 .. limit |-> IF i < m /\ u[i] = BLANK THEN NUL ELSE u[i]]
  BY <1>1 DEF my_tokenize, Arrays
<1> HIDE DEF found, cut
<1>5. /\ found \in Seq(Nat) /\ N \in Nat /\ Ascending(found, N)
      /\ \A k \in 1 .. N : found[k] \in 0 .. m - 1 /\ TokenAt(u, found[k])
      /\ \A j \in 0 .. m - 1 : TokenAt(u, j) => \E k \in 1 .. N : found[k] = j
  BY <1>2, <1>3 DEF FoundUpTo
<1> HIDE DEF N
<1>6. ASSUME NEW k \in 1 .. N PROVE StopsAt(u, m, found[k], stop[k])
  <2>1. found[k] \in 0 .. m
    BY <1>0, <1>5
  <2>2. \E p \in 0 .. m : StopsAt(u, m, found[k], p)
    BY <1>0, <2>1, WordStops
  <2>3. stop[k] = CHOOSE p \in 0 .. m : StopsAt(u, m, found[k], p)
    OBVIOUS
  <2> QED BY <2>2, <2>3
<1> HIDE DEF stop
<1>7. \A k \in 1 .. N : from[k] = found[k] + a + 1 /\ upto[k] = stop[k] + a
  OBVIOUS
<1> HIDE DEF upto
<1>8. Ascending(from, N)
  <2>1. found \in [1 .. N -> Nat] /\ \A i, j \in 1 .. N : i < j => found[i] < found[j]
    BY <1>5 DEF Ascending
  <2>2. \A i \in 1 .. N : found[i] + a + 1 \in Nat
    BY <1>0, <2>1
  <2>3. from \in [1 .. N -> Nat]
    BY <2>2
  <2>4. ASSUME NEW i \in 1 .. N, NEW j \in 1 .. N, i < j PROVE from[i] < from[j]
    <3>1. \A x, y, z \in Nat : x < y => x + z + 1 < y + z + 1
      OBVIOUS
    <3>2. found[i] \in Nat /\ found[j] \in Nat /\ found[i] < found[j] /\ a \in Nat
      BY <1>0, <2>1, <2>4
    <3>3. from[i] = found[i] + a + 1 /\ from[j] = found[j] + a + 1
      BY <1>7
    <3> QED BY ONLY <3>1, <3>2, <3>3
  <2> QED BY <1>5, <2>3, <2>4 DEF Ascending
<1> HIDE DEF from
<1>9. ASSUME NEW k \in 1 .. N
      PROVE  WordAt(t, from[k], upto[k]) /\ StringAt(cut, found[k]) = SubSeq(t, from[k], upto[k])
  <2> DEFINE o == found[k]
             p == stop[k]
  <2>1. o \in 0 .. m - 1 /\ u[o] # BLANK /\ (o = 0 \/ u[o - 1] = BLANK)
    BY <1>5 DEF TokenAt
  <2>2. p \in o .. m /\ (p = m \/ u[p] = BLANK) /\ \A j \in o .. p - 1 : u[j] # BLANK
    BY <1>6 DEF StopsAt
  <2>3. from[k] = o + a + 1 /\ upto[k] = p + a
    BY <1>7
  <2> HIDE DEF o, p
  <2>4. p # o
    BY <1>0, <2>1, <2>2
  <2>5. p - 1 \in o .. m - 1 /\ p \in o + 1 .. m
    BY <1>0, <2>1, <2>2, <2>4
  <2>6. BeginsAt(t, o + a + 1)
    <3>1. o + a + 1 \in 1 .. Len(t) /\ o + a + 1 = a + o + 1
      BY <1>0, <2>1
    <3>2. t[o + a + 1] # BLANK
      BY <1>0, <2>1, <3>1
    <3>3. o + a + 1 = 1 \/ t[(o + a + 1) - 1] = BLANK
      <4>1. CASE o = 0
        <5>1. (o + a + 1) - 1 = a /\ (a = 0 \/ a \in 1 .. a)
          BY <1>0, <4>1
        <5> QED BY <1>0, <4>1, <5>1
      <4>2. CASE o # 0
        <5>1. o - 1 \in 0 .. m - 1 /\ (o + a + 1) - 1 = a + (o - 1) + 1
          BY <1>0, <2>1, <4>2
        <5> QED BY <1>0, <2>1, <4>2, <5>1
      <4> QED BY <4>1, <4>2
    <3> QED BY <3>1, <3>2, <3>3 DEF BeginsAt
  <2>7. p + a \in o + a + 1 .. Len(t)
    <3>1. /\ Len(t) \in Int /\ a \in Nat /\ m \in Nat /\ a + m <= Len(t)
          /\ o \in Int /\ p \in Int /\ o + 1 <= p /\ p <= m
      BY <1>0, <2>1, <2>5
    <3> QED BY ONLY <3>1
  <2>8. ASSUME NEW j \in o + a + 1 .. p + a PROVE t[j] # BLANK
    <3>1. j - a - 1 \in o .. p - 1 /\ j - a - 1 \in 0 .. m - 1 /\ a + (j - a - 1) + 1 = j
      BY <1>0, <2>1, <2>5
    <3> QED BY <1>0, <2>2, <3>1
  <2>9. p + a = Len(t) \/ t[(p + a) + 1] = BLANK
    <3>1. CASE p = m
      <4>1. p + a = Len(t) \/ (p + a) + 1 \in a + m + 1 .. Len(t)
        BY <1>0, <3>1
      <4> QED BY <1>0, <4>1
    <3>2. CASE p # m
      <4>1. p \in 0 .. m - 1 /\ (p + a) + 1 = a + p + 1
        BY <1>0, <2>1, <2>5, <3>2
      <4> QED BY <1>0, <2>2, <3>2, <4>1
    <3> QED BY <3>1, <3>2
  <2>10. WordAt(t, from[k], upto[k])
    BY <2>3, <2>6, <2>7, <2>8, <2>9 DEF WordAt
  <2>11. my_strlen(cut, o) = p - o
    <3>1. o \in 0 .. limit /\ p \in o .. limit
      BY <1>0, <2>1, <2>5
    <3>2. cut[p] = NUL
      BY <1>0, <1>4, <2>2, <3>1
    <3>3. ASSUME NEW j \in o .. p - 1 PROVE cut[j] # NUL
      <4>1. j \in 0 .. limit /\ j \in 0 .. m - 1
        BY <1>0, <2>1, <2>5
      <4>2. cut[j] = u[j]
        BY <1>4, <2>2, <4>1
      <4> QED BY <1>1, <4>1, <4>2, NoTerminatorTyped
    <3> QED BY <3>1, <3>2, <3>3, StrlenIs
  <2>12. StringAt(cut, o) = [i \in 1 .. p - o |-> cut[o + i - 1]]
    BY <2>11 DEF StringAt
  <2>13. SubSeq(t, o + a + 1, p + a) = [i \in 1 .. p - o |-> t[(o + a + 1) + i - 1]]
    <3>1. o \in Int /\ p \in Int /\ a \in Int /\ o + 1 <= p
      BY <1>0, <2>1, <2>5
    <3>2. /\ p - o \in Nat /\ o + a + 1 \in Int /\ p + a \in Int
          /\ (p + a) - (o + a + 1) + 1 = p - o
      BY ONLY <3>1
    <3> QED BY <3>2, StretchOf
  <2>14. ASSUME NEW i \in 1 .. p - o PROVE cut[o + i - 1] = t[(o + a + 1) + i - 1]
    <3>1. /\ o + i - 1 \in o .. p - 1 /\ o + i - 1 \in 0 .. m - 1 /\ o + i - 1 \in 0 .. limit
          /\ (o + a + 1) + i - 1 = a + (o + i - 1) + 1
      BY <1>0, <2>1, <2>5
    <3>2. cut[o + i - 1] = u[o + i - 1]
      BY <1>4, <2>2, <3>1
    <3> QED BY <1>0, <3>1, <3>2
  <2> QED BY <2>3, <2>10, <2>12, <2>13, <2>14 DEF o
<1>10. ASSUME NEW i \in 1 .. Len(t), BeginsAt(t, i) PROVE \E k \in 1 .. N : from[k] = i
  <2>1. i \in a + 1 .. a + m
    <3>1. t[i] # BLANK /\ i \in Nat
      BY <1>10 DEF BeginsAt
    <3>2. i \notin 1 .. a /\ i \notin a + m + 1 .. Len(t)
      BY <1>0, <3>1
    <3> QED BY <1>0, <3>2
  <2> DEFINE o == i - a - 1
  <2>2. o \in 0 .. m - 1 /\ a + o + 1 = i /\ o + a + 1 = i
    BY <1>0, <2>1
  <2>3. u[o] # BLANK
    BY <1>0, <1>10, <2>2 DEF BeginsAt
  <2>4. o = 0 \/ u[o - 1] = BLANK
    <3>1. CASE o # 0
      <4>1. o - 1 \in 0 .. m - 1 /\ a + (o - 1) + 1 = i - 1 /\ i # 1
        BY <1>0, <2>1, <2>2, <3>1
      <4> QED BY <1>0, <1>10, <4>1 DEF BeginsAt
    <3> QED BY <3>1
  <2> HIDE DEF o
  <2>5. PICK k \in 1 .. N : found[k] = o
    BY <1>5, <2>2, <2>3, <2>4 DEF TokenAt
  <2> QED BY <1>7, <2>2, <2>5
<1>11. WordList(t, N, from, upto)
  BY <1>8, <1>9, <1>10 DEF WordList
<1> QED BY <1>9, <1>11 DEF N, found, cut

(* A line of which trimming leaves something begins a word there.          *)
LEMMA OtherLines ==
  ASSUME NEW s \in Arrays, NEW t \in Texts, Holds(s, t), my_strlen(my_str_trim(s), 0) # 0
  PROVE  Words(t) # <<>>
<1> DEFINE u == my_str_trim(s)
           N == Len(my_tokenize(u).found)
<1>0. limit \in Nat /\ Len(t) \in 0 .. limit /\ t \in Seq(Printable)
  BY InputAssumption DEF limit, Texts
<1>1. Terminated(s)
  BY <1>0 DEF Holds, Terminated
<1>2. u \in Arrays
  BY <1>1, TrimStays
<1>3. PICK a, m \in Nat : HoldsPart(u, t, a, m) /\ (m # 0 => t[a + 1] # BLANK)
  BY TrimmingTrims
<1>4. m # 0
  BY <1>3, PartLength
<1> HIDE DEF u
<1>5. BeginsAt(t, a + 1)
  <2>1. a + 1 \in 1 .. Len(t) /\ (a + 1) - 1 = a /\ (a = 0 \/ a \in 1 .. a)
    BY <1>0, <1>3, <1>4 DEF HoldsPart, Trims
  <2>2. a = 0 \/ t[a] = BLANK
    BY <1>3, <2>1 DEF HoldsPart, Trims
  <2> QED BY <1>3, <1>4, <2>1, <2>2 DEF BeginsAt
<1>6. PICK from, upto : WordList(t, N, from, upto)
  BY <1>2, <1>3, TokensAreWords
<1> HIDE DEF N
<1>7. Words(t) = [k \in 1 .. N |-> SubSeq(t, from[k], upto[k])]
  BY <1>0, <1>6, WordsAreListed
<1>8. \E k \in 1 .. N : from[k] = a + 1
  BY <1>5, <1>6 DEF WordList, BeginsAt
<1>9. N \in Nat /\ N # 0
  BY <1>6, <1>8 DEF WordList, Ascending
<1>10. Len(Words(t)) = N
  BY <1>7, <1>9
<1> QED BY <1>9, <1>10

-----------------------------------------------------------------------------
(* The line as it shows on the screen is in the array, from enter on as a  *)
(* string, and once it is tokenized the tokens point at its words.         *)

Listed(t, from, upto) ==
  /\ WordList(t, Len(tokens), from, upto)
  /\ \A k \in 1 .. Len(tokens) : StringAt(input, tokens[k]) = SubSeq(t, from[k], upto[k])

TooMany(t) == \E N, from, upto : WordList(t, N, from, upto) /\ N > MAX_TOKENS

LineInv ==
  /\ phase # "reading" => pos = 0
  /\ phase = "off" => shown = <<>>
  /\ phase = "reading" => pos = Len(shown) /\ Begins(input, shown)
  /\ phase = "entered" => Holds(input, shown)
  /\ phase = "dispatching" => \E from, upto : Listed(shown, from, upto)
  /\ phase = "overrun" => TooMany(shown)

LEMMA LineInvInit == Init => LineInv
BY DEF Init, LineInv

LEMMA LineInvNext == InputInv /\ LineInv /\ [Next]_vars => LineInv'
<1> SUFFICES ASSUME InputInv, LineInv, [Next]_vars PROVE LineInv'
  OBVIOUS
<1>0. /\ limit \in Nat /\ pos \in 0 .. limit /\ input \in Arrays
      /\ shown \in Texts
      /\ Len(shown) \in 0 .. limit /\ shown \in Seq(Printable)
  BY InputAssumption DEF InputInv, InputTypeOK, limit, Arrays, Texts
<1>a. ASSUME phase' = "reading", pos' = 0, shown' = <<>> PROVE LineInv'
  <2>1. shown' = <<>> /\ Len(shown') = 0
    BY <1>a
  <2>2. Begins(input, shown)'
    BY <2>1 DEF Begins
  <2> QED BY <1>a, <2>1, <2>2 DEF LineInv
<1>b. ASSUME phase' = "reading", pos' = Len(shown'), Begins(input', shown') PROVE LineInv'
  BY <1>b DEF LineInv
<1>1. ASSUME NEW key \in Printable, PrintableKey(key) PROVE LineInv'
  <2>1. phase = "reading" /\ phase' = "reading" /\ pos = Len(shown) /\ Begins(input, shown)
    BY <1>1 DEF PrintableKey, Reads, LineInv
  <2>2. key # "backspace"
    BY LettersAssumption DEF Printable, BLANK
  <2>3. shown' = IF Len(shown) < limit THEN Append(shown, key) ELSE shown
    <3>1. shown' = Edit(shown, key)
      BY <1>1 DEF PrintableKey
    <3> QED BY <2>2, <3>1 DEF Edit
  <2>4. CASE Fits
    <3>1. input' = [input EXCEPT ![pos] = key] /\ pos' = pos + 1 /\ pos < limit
      BY <1>1, <2>4 DEF PrintableKey, Fits
    <3>2. shown' = Append(shown, key) /\ Len(shown') = pos + 1
      BY <1>0, <2>1, <2>3, <3>1
    <3>3. ASSUME NEW i \in 1 .. Len(shown') PROVE input'[i - 1] = shown'[i]
      <4>1. CASE i = pos + 1
        BY <1>0, <2>1, <3>1, <3>2, <4>1 DEF Arrays
      <4>2. CASE i # pos + 1
        <5>1. i \in 1 .. Len(shown) /\ i - 1 \in 0 .. limit /\ i - 1 # pos
          BY <1>0, <2>1, <3>2, <4>2
        <5>2. input'[i - 1] = input[i - 1] /\ shown'[i] = shown[i]
          BY <1>0, <3>1, <3>2, <5>1 DEF Arrays
        <5> QED BY <2>1, <5>1, <5>2 DEF Begins
      <4> QED BY <4>1, <4>2
    <3> QED BY <1>b, <2>1, <3>1, <3>2, <3>3 DEF Begins
  <2>5. CASE ~Fits
    <3>1. input' = input /\ pos' = pos /\ ~(pos < limit)
      BY <1>1, <2>5 DEF PrintableKey, Fits
    <3> QED BY <1>b, <2>1, <2>3, <3>1
  <2> QED BY <2>4, <2>5
<1>2. CASE BackspaceKey
  <2>1. phase = "reading" /\ phase' = "reading" /\ pos = Len(shown) /\ Begins(input, shown)
    BY <1>2 DEF BackspaceKey, Reads, LineInv
  <2>2. shown' = SubSeq(shown, 1, Len(shown) - 1)
    <3>1. shown' = Edit(shown, "backspace")
      BY <1>2 DEF BackspaceKey
    <3> QED BY <3>1 DEF Edit
  <2>3. /\ Len(shown') = IF 1 <= Len(shown) - 1 THEN Len(shown) - 1 - 1 + 1 ELSE 0
        /\ \A i \in 1 .. Len(shown) - 1 - 1 + 1 : shown'[i] = shown[1 + i - 1]
    <3>1. \A i \in 1 .. Len(shown) - 1 : shown[i] \in Printable
      BY <1>0
    <3> QED BY <1>0, <2>2, <3>1, 1 \in Int, Len(shown) - 1 \in Int, SubSeqProperties
  <2>4. input' = input /\ pos' = Len(shown')
    BY <1>0, <1>2, <2>1, <2>3 DEF BackspaceKey, Back
  <2>5. ASSUME NEW i \in 1 .. Len(shown') PROVE input'[i - 1] = shown'[i]
    <3>1. i \in 1 .. Len(shown) /\ i \in 1 .. Len(shown) - 1 - 1 + 1 /\ 1 + i - 1 = i
      BY <1>0, <2>3
    <3> QED BY <2>1, <2>3, <2>4, <3>1 DEF Begins
  <2> QED BY <1>b, <2>1, <2>4, <2>5 DEF Begins
<1>3. CASE EnterKey
  <2>1. /\ phase = "reading" /\ phase' = "entered" /\ pos = Len(shown) /\ Begins(input, shown)
        /\ input' = [input EXCEPT ![pos] = NUL] /\ pos' = 0 /\ shown' = shown
    BY <1>3 DEF EnterKey, Reads, LineInv
  <2>3. ASSUME NEW i \in 1 .. Len(shown) PROVE input'[i - 1] = shown[i]
    <3>1. i - 1 \in 0 .. limit /\ i - 1 # pos
      BY <1>0, <2>1
    <3> QED BY <1>0, <2>1, <3>1 DEF Begins, Arrays
  <2>4. input'[Len(shown)] = NUL
    BY <1>0, <2>1 DEF Arrays
  <2>5. Holds(input', shown')
    BY <2>1, <2>3, <2>4 DEF Holds, Begins
  <2> QED BY <2>1, <2>5 DEF LineInv
<1>4. CASE Parse
  <2> DEFINE trimmed == my_str_trim(input)
             cut == my_tokenize(trimmed).cut
             found == my_tokenize(trimmed).found
  <2>1. pos' = 0 /\ Holds(input, shown)
    BY <1>4 DEF Parse, LineInv
  <2>2. \/ phase' = "reading" /\ shown' = <<>>
        \/ /\ shown' = shown /\ input' = cut /\ HasRoom(found)
           /\ phase' = "dispatching" /\ tokens' = found
        \/ /\ shown' = shown /\ ~HasRoom(found) /\ phase' = "overrun"
    BY <1>4 DEF Parse
  <2>3. PICK a, m \in Nat : HoldsPart(trimmed, shown, a, m)
    BY <1>0, <2>1, TrimmingTrims
  <2>4. trimmed \in Arrays
    <3>1. Terminated(input)
      BY <1>4 DEF Parse, InputInv
    <3> QED BY <1>0, <3>1, TrimStays
  <2> HIDE DEF trimmed
  <2>5. \E from, upto :
          /\ WordList(shown, Len(found), from, upto)
          /\ \A k \in 1 .. Len(found) : StringAt(cut, found[k]) = SubSeq(shown, from[k], upto[k])
    BY <1>0, <2>3, <2>4, TokensAreWords
  <2>6. Len(found) \in Nat /\ MAX_TOKENS \in Nat
    <3>1. Terminated(trimmed)
      BY <1>0, <1>4, TrimStays DEF Parse, InputInv, trimmed
    <3> QED BY <2>4, <3>1, TokensStay, InputAssumption
  <2> HIDE DEF found, cut
  <2>7. CASE /\ shown' = shown /\ input' = cut
             /\ phase' = "dispatching" /\ tokens' = found
    <3>1. \E from, upto : Listed(shown, from, upto)'
      BY <2>5, <2>7 DEF Listed
    <3> QED BY <2>1, <2>7, <3>1 DEF LineInv
  <2>8. CASE shown' = shown /\ ~HasRoom(found) /\ phase' = "overrun"
    <3>1. Len(found) > MAX_TOKENS
      BY <2>6, <2>8 DEF HasRoom
    <3>2. TooMany(shown)'
      BY <2>5, <2>8, <3>1 DEF TooMany
    <3> QED BY <2>1, <2>8, <3>2 DEF LineInv
  <2> QED BY <1>a, <2>1, <2>2, <2>7, <2>8
<1>5. CASE Dispatch
  <2>1. pos' = 0 /\ shown' = <<>> /\ phase' \in {"reading", "ended"}
    BY <1>5 DEF Dispatch, LineInv
  <2> QED BY <1>a, <2>1 DEF LineInv
<1>6. CASE Boots
  BY <1>a, <1>6 DEF Boots, LineInv
<1>7. CASE MainReturns \/ Dies
  BY <1>7 DEF MainReturns, Dies, Cleared, LineInv
<1>8. CASE ControlKey \/ InputEnds \/ UNCHANGED vars
  BY <1>8 DEF ControlKey, InputEnds, vars, LineInv, Listed, TooMany
<1> QED BY <1>1, <1>2, <1>3, <1>4, <1>5, <1>6, <1>7, <1>8 DEF Next

-----------------------------------------------------------------------------
(* What echo and write join grows word by word, up to the last one.        *)
Content(first) == CHOOSE f : f = [k \in first .. Len(tokens) |->
                    IF k = first THEN <<>>
                    ELSE f[k - 1] \o StringAt(input, tokens[k]) \o Separator(k)]

LEMMA ContentSteps ==
  ASSUME NEW first \in Nat, Len(tokens) \in Nat, first <= Len(tokens),
         \A k \in first + 1 .. Len(tokens) : StringAt(input, tokens[k]) \in Seq(Printable)
  PROVE  /\ Joined(first) = Content(first)[Len(tokens)]
         /\ Content(first)[first] = <<>>
         /\ \A k \in first + 1 .. Len(tokens) :
              Content(first)[k]
                = Content(first)[k - 1] \o StringAt(input, tokens[k]) \o Separator(k)
<1> DEFINE N == Len(tokens)
           D == first .. N
           B == {first}
           T == Seq(Printable)
           More(t, n) == t \o StringAt(input, tokens[n]) \o Separator(n)
           rank == [n \in D |-> n]
           next == [n \in D \ B |-> n - 1]
           base == [n \in D |-> <<>>]
           G == [n \in D \ B |-> [t \in T |-> More(t, n)]]
           Solves(f) == f = [k \in D |-> IF k = first THEN <<>> ELSE More(f[k - 1], k)]
           con == Content(first)
<1>0. N \in Nat /\ first \in D
  OBVIOUS
<1>1. \A n \in D \ B : n \in first + 1 .. N /\ n - 1 \in D /\ n - 1 < n
  BY <1>0
<1>2. LeadsDown(next, D, B, rank, N)
  <2>1. next \in [D \ B -> D] /\ rank \in [D -> 0 .. N]
    BY <1>0, <1>1
  <2>2. \A n \in D \ B : rank[next[n]] < rank[n]
    BY <1>0, <1>1
  <2> HIDE DEF next, rank, D, B
  <2> QED BY <1>0, <2>1, <2>2 DEF LeadsDown
<1>3. base \in [D -> T]
  OBVIOUS
<1>4. ASSUME NEW n \in D \ B, NEW t \in T PROVE More(t, n) \in T
  <2>1. StringAt(input, tokens[n]) \in T
    BY <1>1
  <2>2. Separator(n) \in T
    BY NoTerminatorTyped DEF Separator
  <2> HIDE DEF D, B
  <2> QED BY <2>1, <2>2
<1>5. \A n \in D : base[n] = <<>> /\ (n \in B <=> n = first)
  OBVIOUS
<1> HIDE DEF More
<1>6. \A n \in D \ B : next[n] = n - 1 /\ n - 1 \in D /\ \A t \in T : G[n][t] = More(t, n)
  BY <1>1
<1>7. Joined(first) = con[N]
  BY DEF Joined, Content
<1>8. con = CHOOSE f : Solves(f)
  BY DEF Content, More
<1>9. first \in D /\ \A k \in first + 1 .. N : k \in D /\ k # first /\ k - 1 \in D
  BY <1>0
<1> HIDE DEF next, rank, base, B, D, con, N, T
<1>10. G \in [D \ B -> [T -> T]]
  BY <1>4
<1> HIDE DEF G
<1>11. PICK f \in [D -> T] : Recurs(f, next, D, B, base, G)
  BY <1>0, <1>2, <1>3, <1>10, RecursionDownwards
<1>12. \A k \in D : f[k] = IF k = first THEN <<>> ELSE More(f[k - 1], k)
  <2> SUFFICES ASSUME NEW k \in D
               PROVE  f[k] = IF k = first THEN <<>> ELSE More(f[k - 1], k)
    OBVIOUS
  <2>1. CASE k = first
    BY <1>5, <1>11, <2>1 DEF Recurs
  <2>2. CASE k # first
    <3>1. k \in D \ B /\ f[k - 1] \in T
      BY <1>5, <1>6, <1>11, <2>2
    <3> QED BY <1>6, <1>11, <2>2, <3>1 DEF Recurs
  <2> QED BY <2>1, <2>2
<1>13. Solves(f)
  BY <1>11, <1>12
<1>14. Solves(con)
  BY <1>8, <1>13
<1>15. \A k \in D : con[k] = IF k = first THEN <<>> ELSE More(con[k - 1], k)
  BY <1>14
<1> QED BY <1>7, <1>9, <1>15 DEF More, N, con

(* Every blank stands behind another character and before one, if any.     *)
SingleBlanks(c) ==
  \A i \in 1 .. Len(c) :
    c[i] = BLANK => 1 < i /\ c[i - 1] # BLANK /\ (i < Len(c) => c[i + 1] # BLANK)

(* One more word behind a text that ends in a blank, and what separates it *)
(* from the next.                                                          *)
LongerByWord(d, c, w, sep, n, f, u) ==
  /\ d \in Seq(Printable) /\ d # <<>> /\ SingleBlanks(d)
  /\ d[Len(d)] = BLANK <=> sep = <<BLANK>>
  /\ \E g, v : /\ WordList(d, n + 1, g, v)
               /\ \A i \in 1 .. n : SubSeq(d, g[i], v[i]) = SubSeq(c, f[i], u[i])
               /\ SubSeq(d, g[n + 1], v[n + 1]) = w

LEMMA OneMoreWord ==
  ASSUME NEW c \in Seq(Printable), NEW w \in Seq(Printable), w # <<>>,
         \A j \in 1 .. Len(w) : w[j] # BLANK,
         NEW sep \in {<<>>, <<BLANK>>},
         c = <<>> \/ c[Len(c)] = BLANK, SingleBlanks(c),
         NEW n, NEW f, NEW u, WordList(c, n, f, u)
  PROVE  LongerByWord(c \o w \o sep, c, w, sep, n, f, u)
<1> DEFINE d == c \o w \o sep
           L == Len(c)
           m == Len(w)
           z == Len(sep)
           g == [i \in 1 .. n + 1 |-> IF i = n + 1 THEN L + 1 ELSE f[i]]
           v == [i \in 1 .. n + 1 |-> IF i = n + 1 THEN L + m ELSE u[i]]
<1>1. /\ L \in Nat /\ m \in Nat /\ 1 <= m /\ z \in {0, 1} /\ n \in Nat
      /\ (z = 1 <=> sep = <<BLANK>>) /\ sep \in Seq(Printable) /\ (z = 1 => sep[1] = BLANK)
  <2>1. L \in Nat /\ m \in Nat /\ 1 <= m /\ n \in Nat
    BY DEF WordList, Ascending
  <2>2. CASE sep = <<>>
    BY <2>1, <2>2
  <2>3. CASE sep = <<BLANK>>
    BY <2>1, <2>3, NoTerminatorTyped
  <2> QED BY <2>2, <2>3
<1>2. /\ d \in Seq(Printable) /\ Len(d) = L + m + z
      /\ \A i \in 1 .. L : d[i] = c[i]
      /\ \A i \in L + 1 .. L + m : d[i] = w[i - L]
      /\ z = 1 => d[L + m + 1] = BLANK
  <2> DEFINE e == c \o w
  <2>1. /\ e \in Seq(Printable) /\ Len(e) = L + m
        /\ \A i \in 1 .. L + m : e[i] = IF i <= L THEN c[i] ELSE w[i - L]
    BY ConcatProperties
  <2> HIDE DEF e
  <2>2. /\ e \o sep \in Seq(Printable) /\ Len(e \o sep) = Len(e) + z
        /\ \A i \in 1 .. Len(e) + z : (e \o sep)[i] = IF i <= Len(e) THEN e[i] ELSE sep[i - Len(e)]
    <3>1. e \in Seq(Printable) /\ sep \in Seq(Printable)
      BY <1>1, <2>1
    <3> HIDE DEF L, m
    <3> QED BY ONLY <3>1, ConcatProperties
  <2>3. d = e \o sep
    BY DEF e
  <2> HIDE DEF d, L, m, z
  <2>4. \A i \in 1 .. L + m : d[i] = e[i]
    <3> SUFFICES ASSUME NEW i \in 1 .. L + m PROVE d[i] = e[i]
      OBVIOUS
    <3>1. i \in 1 .. Len(e) + z /\ i <= Len(e)
      BY <1>1, <2>1
    <3> QED BY <2>2, <2>3, <3>1
  <2>5. ASSUME NEW i \in 1 .. L PROVE d[i] = c[i]
    <3>1. i \in 1 .. L + m /\ i <= L
      BY <1>1
    <3> QED BY <2>1, <2>4, <3>1
  <2>6. ASSUME NEW i \in L + 1 .. L + m PROVE d[i] = w[i - L]
    <3>1. i \in 1 .. L + m /\ ~(i <= L)
      BY <1>1
    <3> QED BY <2>1, <2>4, <3>1
  <2>7. ASSUME z = 1 PROVE d[L + m + 1] = BLANK
    <3>1. L + m + 1 \in 1 .. Len(e) + z /\ ~(L + m + 1 <= Len(e)) /\ (L + m + 1) - Len(e) = 1
      BY <1>1, <2>1, <2>7
    <3> QED BY <1>1, <2>2, <2>3, <2>7, <3>1
  <2> QED BY <2>1, <2>2, <2>3, <2>5, <2>6, <2>7
<1> HIDE DEF d, z
<1>3. \A i \in L + 1 .. L + m : i \in 1 .. Len(d) /\ i - L \in 1 .. m /\ d[i] # BLANK
  <2> SUFFICES ASSUME NEW i \in L + 1 .. L + m
               PROVE  i \in 1 .. Len(d) /\ i - L \in 1 .. m /\ d[i] # BLANK
    OBVIOUS
  <2>1. i - L \in 1 .. m /\ i \in 1 .. Len(d)
    BY <1>1, <1>2
  <2> QED BY <1>2, <2>1
<1>4. L = 0 \/ (L \in 1 .. L /\ c[L] = BLANK /\ d[L] = BLANK)
  <2>1. c = <<>> => L = 0
    OBVIOUS
  <2>2. L # 0 => L \in 1 .. L
    BY <1>1
  <2> QED BY <1>2, <2>1, <2>2
<1> HIDE DEF L, m
<1>5. d # <<>> /\ (d[Len(d)] = BLANK <=> sep = <<BLANK>>)
  <2>1. CASE z = 1
    BY <1>1, <1>2, <2>1
  <2>2. CASE z = 0
    <3>1. Len(d) \in L + 1 .. L + m /\ Len(d) # 0
      BY <1>1, <1>2, <2>2
    <3> QED BY <1>1, <1>3, <2>2, <3>1
  <2> QED BY <1>1, <2>1, <2>2
<1>6. ASSUME NEW i \in 1 .. Len(d), d[i] = BLANK PROVE i \in 1 .. L \/ (z = 1 /\ i = L + m + 1)
  <2>1. i \in 1 .. L \/ i \in L + 1 .. L + m \/ (z = 1 /\ i = L + m + 1)
    BY <1>1, <1>2
  <2> QED BY <1>3, <1>6, <2>1
<1>7. SingleBlanks(d)
  <2> SUFFICES ASSUME NEW i \in 1 .. Len(d), d[i] = BLANK
               PROVE  1 < i /\ d[i - 1] # BLANK /\ (i < Len(d) => d[i + 1] # BLANK)
    BY DEF SingleBlanks
  <2>1. CASE i \in 1 .. L
    <3>1. c[i] = BLANK /\ 1 < i /\ c[i - 1] # BLANK /\ (i < L => c[i + 1] # BLANK)
      BY <1>2, <2>1 DEF SingleBlanks, L
    <3>2. i - 1 \in 1 .. L /\ (i < L => i + 1 \in 1 .. L)
      BY <1>1, <2>1, <3>1
    <3>3. i < L \/ i + 1 \in L + 1 .. L + m
      BY <1>1, <2>1
    <3> QED BY <1>2, <1>3, <3>1, <3>2, <3>3
  <2>2. CASE z = 1 /\ i = L + m + 1
    <3>1. i - 1 \in L + 1 .. L + m /\ 1 < i /\ ~(i < Len(d))
      BY <1>1, <1>2, <2>2
    <3> QED BY <1>3, <3>1
  <2> QED BY <1>6, <2>1, <2>2
<1>8. /\ \A i \in 1 .. n : i \in 1 .. n + 1 /\ g[i] = f[i] /\ v[i] = u[i] /\ i # n + 1
      /\ n + 1 \in 1 .. n + 1 /\ g[n + 1] = L + 1 /\ v[n + 1] = L + m
      /\ \A i \in 1 .. n + 1 : i = n + 1 \/ i \in 1 .. n
      /\ DOMAIN g = 1 .. n + 1
  BY <1>1
<1>9. g \in [1 .. n + 1 -> Nat]
  <2>1. f \in [1 .. n -> Nat]
    BY DEF WordList, Ascending
  <2>2. \A i \in 1 .. n + 1 : (IF i = n + 1 THEN L + 1 ELSE f[i]) \in Nat
    BY <1>1, <1>8, <2>1
  <2> QED BY <2>2
<1> HIDE DEF g, v
<1>10. ASSUME NEW k \in 1 .. n
       PROVE  /\ WordAt(c, f[k], u[k]) /\ f[k] \in 1 .. L /\ u[k] \in f[k] .. L
              /\ u[k] # L /\ u[k] + 1 \in 1 .. L /\ c[u[k] + 1] = BLANK
  <2>1. WordAt(c, f[k], u[k])
    BY DEF WordList
  <2>2. f[k] \in 1 .. L /\ u[k] \in f[k] .. L /\ c[u[k]] # BLANK
    BY <2>1 DEF WordAt, BeginsAt, L
  <2>3. u[k] # L
    BY <1>1, <1>4, <2>2
  <2>4. u[k] + 1 \in 1 .. L
    BY <1>1, <2>2, <2>3
  <2> QED BY <2>1, <2>2, <2>3, <2>4 DEF WordAt, L
<1>11. ASSUME NEW i \in 1 .. L PROVE BeginsAt(d, i) <=> BeginsAt(c, i)
  <2>1. i \in 1 .. Len(d) /\ (i = 1 \/ i - 1 \in 1 .. L)
    BY <1>1, <1>2
  <2> QED BY <1>2, <2>1 DEF BeginsAt, L
<1>12. ASSUME NEW k \in 1 .. n PROVE WordAt(d, f[k], u[k])
  <2>1. f[k] \in 1 .. L /\ u[k] \in f[k] .. L /\ WordAt(c, f[k], u[k])
    BY <1>10
  <2>2. u[k] \in f[k] .. Len(d) /\ \A j \in f[k] .. u[k] : j \in 1 .. L
    BY <1>1, <1>2, <2>1
  <2>3. \A j \in f[k] .. u[k] : d[j] # BLANK
    BY <1>2, <2>1, <2>2 DEF WordAt
  <2>4. d[u[k] + 1] = BLANK
    BY <1>2, <1>10
  <2>5. BeginsAt(d, f[k])
    BY <1>11, <2>1 DEF WordAt
  <2> QED BY <2>2, <2>3, <2>4, <2>5 DEF WordAt
<1>13. BeginsAt(d, L + 1) /\ WordAt(d, L + 1, L + m)
  <2>1. L + 1 \in L + 1 .. L + m /\ L + m \in L + 1 .. Len(d) /\ (L + 1) - 1 = L
    BY <1>1, <1>2
  <2>2. BeginsAt(d, L + 1)
    BY <1>1, <1>3, <1>4, <2>1 DEF BeginsAt
  <2>3. L + m = Len(d) \/ d[(L + m) + 1] = BLANK
    BY <1>1, <1>2
  <2> QED BY <1>3, <2>1, <2>2, <2>3 DEF WordAt
<1>14. WordList(d, n + 1, g, v)
  <2>1. Ascending(g, n + 1)
    <3>1. ASSUME NEW i \in 1 .. n + 1, NEW j \in 1 .. n + 1, i < j PROVE g[i] < g[j]
      <4>1. i \in 1 .. n
        BY <1>1, <3>1
      <4>2. CASE j \in 1 .. n
        BY <1>8, <3>1, <4>1, <4>2 DEF WordList, Ascending
      <4>3. CASE j = n + 1
        <5>1. g[i] = f[i] /\ f[i] \in 1 .. L /\ g[j] = L + 1
          BY <1>8, <1>10, <4>1, <4>3
        <5> QED BY <1>1, <5>1
      <4> QED BY <1>8, <4>2, <4>3
    <3> QED BY <1>1, <1>9, <3>1 DEF Ascending
  <2>2. ASSUME NEW k \in 1 .. n + 1 PROVE WordAt(d, g[k], v[k])
    BY <1>8, <1>12, <1>13
  <2>3. ASSUME NEW i \in 1 .. Len(d), BeginsAt(d, i) PROVE \E k \in 1 .. n + 1 : g[k] = i
    <3>1. CASE i \in 1 .. L
      <4>1. BeginsAt(c, i)
        BY <1>11, <2>3, <3>1
      <4>2. PICK k \in 1 .. n : f[k] = i
        BY <3>1, <4>1 DEF WordList, L
      <4> QED BY <1>8, <4>2
    <3>2. CASE i = L + 1
      BY <1>8, <3>2
    <3>3. CASE i \notin 1 .. L /\ i # L + 1
      <4>1. i - 1 \in L + 1 .. L + m /\ i # 1
        BY <1>1, <1>2, <3>3
      <4> QED BY <1>3, <2>3, <4>1 DEF BeginsAt
    <3> QED BY <3>1, <3>2, <3>3
  <2> QED BY <2>1, <2>2, <2>3 DEF WordList
<1>15. ASSUME NEW i \in 1 .. n PROVE SubSeq(d, g[i], v[i]) = SubSeq(c, f[i], u[i])
  <2> DEFINE b == f[i]
             e == u[i]
             len == e - b + 1
  <2>1. b \in 1 .. L /\ e \in b .. L /\ g[i] = b /\ v[i] = e
    BY <1>8, <1>10
  <2> HIDE DEF b, e
  <2>2. b \in Int /\ e \in Int /\ len \in Nat
    BY <1>1, <2>1
  <2>3. \A j \in 1 .. len : b + j - 1 \in 1 .. L
    BY <1>1, <2>1
  <2> HIDE DEF len
  <2>4. e - b + 1 = len
    BY DEF len
  <2>5. SubSeq(d, b, e) = [j \in 1 .. len |-> d[b + j - 1]]
    BY <2>2, <2>4, StretchOf
  <2>6. SubSeq(c, b, e) = [j \in 1 .. len |-> c[b + j - 1]]
    BY <2>2, <2>4, StretchOf
  <2> QED BY <1>2, <2>1, <2>3, <2>5, <2>6 DEF b, e
<1>16. SubSeq(d, L + 1, L + m) = w
  <2>1. L + 1 \in Int /\ L + m \in Int /\ (L + m) - (L + 1) + 1 = m
    BY <1>1
  <2>2. SubSeq(d, L + 1, L + m) = [j \in 1 .. m |-> d[(L + 1) + j - 1]]
    BY <1>1, <2>1, StretchOf
  <2>3. ASSUME NEW j \in 1 .. m PROVE d[(L + 1) + j - 1] = w[j]
    <3>1. (L + 1) + j - 1 \in L + 1 .. L + m /\ ((L + 1) + j - 1) - L = j
      BY <1>1
    <3> QED BY <1>2, <3>1
  <2>4. w = [j \in 1 .. m |-> w[j]]
    BY DEF m
  <2> QED BY <2>2, <2>3, <2>4
<1>17. SubSeq(d, g[n + 1], v[n + 1]) = w
  BY <1>8, <1>16
<1>18. \E h, x : /\ WordList(d, n + 1, h, x)
                 /\ \A i \in 1 .. n : SubSeq(d, h[i], x[i]) = SubSeq(c, f[i], u[i])
                 /\ SubSeq(d, h[n + 1], x[n + 1]) = w
  BY <1>14, <1>15, <1>17
<1>19. d \in Seq(Printable)
  BY <1>2
<1> QED BY <1>5, <1>7, <1>18, <1>19 DEF d, LongerByWord

(* The first k of the words that are joined: each once, in order, and a    *)
(* blank behind them unless they are all.                                  *)
Spelled(c, first, k) ==
  /\ c \in Seq(Printable) /\ SingleBlanks(c)
  /\ c = <<>> \/ (c[Len(c)] = BLANK <=> first + k < Len(tokens))
  /\ \E f, u : /\ WordList(c, k, f, u)
               /\ \A i \in 1 .. k : SubSeq(c, f[i], u[i]) = StringAt(input, tokens[first + i])

LEMMA JoiningSpells ==
  ASSUME NEW first \in Nat, Len(tokens) \in Nat, first <= Len(tokens),
         \A k \in 1 .. Len(tokens) : /\ StringAt(input, tokens[k]) \in Seq(Printable) \ {<<>>}
                                     /\ \A j \in 1 .. Len(StringAt(input, tokens[k])) :
                                          StringAt(input, tokens[k])[j] # BLANK
  PROVE  Spelled(Joined(first), first, Len(tokens) - first)
<1> DEFINE N == Len(tokens)
           con == Content(first)
           W(k) == StringAt(input, tokens[k])
           S == {k \in Nat : Spelled(con[first + k], first, k)}
<1>1. N \in Nat /\ first <= N /\ N - first \in Nat /\ \A k \in first + 1 .. N : k \in 1 .. N
  OBVIOUS
<1>2. /\ Joined(first) = con[N] /\ con[first] = <<>>
      /\ \A k \in first + 1 .. N : con[k] = con[k - 1] \o W(k) \o Separator(k)
  BY <1>1, ContentSteps
<1>3. \A k \in 1 .. N : /\ W(k) \in Seq(Printable) /\ W(k) # <<>>
                        /\ \A j \in 1 .. Len(W(k)) : W(k)[j] # BLANK
  OBVIOUS
<1> HIDE DEF W, con
<1>4. 0 \in S
  <2>1. WordList(<<>>, 0, <<>>, <<>>)
    BY DEF WordList, Ascending, BeginsAt
  <2>2. <<>> \in Seq(Printable) /\ SingleBlanks(<<>>)
    BY DEF SingleBlanks
  <2>3. Spelled(<<>>, first, 0)
    BY <2>1, <2>2 DEF Spelled
  <2>4. first + 0 = first
    OBVIOUS
  <2> QED BY <1>2, <2>3, <2>4
<1>5. ASSUME NEW k \in 0 .. (N - first) - 1, k \in S PROVE k + 1 \in S
  <2> DEFINE c == con[first + k]
             w == W(first + k + 1)
             sep == Separator(first + k + 1)
             d == c \o w \o sep
  <2>1. /\ k \in Nat /\ k + 1 \in Nat /\ first + k < N /\ first + (k + 1) = first + k + 1
        /\ first + k + 1 \in first + 1 .. N /\ (first + k + 1) - 1 = first + k
    BY <1>1
  <2>2. con[first + (k + 1)] = d
    BY <1>2, <2>1
  <2>3. w \in Seq(Printable) /\ w # <<>> /\ \A j \in 1 .. Len(w) : w[j] # BLANK
    BY <1>1, <1>3, <2>1
  <2>4. sep \in {<<>>, <<BLANK>>} /\ (sep = <<BLANK>> <=> first + (k + 1) < N)
    BY <2>1 DEF Separator
  <2>5. Spelled(c, first, k)
    BY <1>5
  <2>6. c \in Seq(Printable) /\ SingleBlanks(c) /\ (c = <<>> \/ c[Len(c)] = BLANK)
    BY <2>1, <2>5 DEF Spelled
  <2>7. PICK f, u : /\ WordList(c, k, f, u)
                    /\ \A i \in 1 .. k : SubSeq(c, f[i], u[i]) = W(first + i)
    BY <2>5 DEF Spelled, W
  <2> HIDE DEF c, w, sep
  <2>8. LongerByWord(d, c, w, sep, k, f, u)
    BY <2>3, <2>4, <2>6, <2>7, OneMoreWord
  <2> HIDE DEF d
  <2>9. PICK g, v : /\ WordList(d, k + 1, g, v)
                    /\ \A i \in 1 .. k : SubSeq(d, g[i], v[i]) = SubSeq(c, f[i], u[i])
                    /\ SubSeq(d, g[k + 1], v[k + 1]) = w
    BY <2>8 DEF LongerByWord
  <2>10. ASSUME NEW i \in 1 .. k + 1 PROVE SubSeq(d, g[i], v[i]) = W(first + i)
    <3>1. CASE i = k + 1
      BY <2>1, <2>9, <3>1 DEF w
    <3>2. CASE i # k + 1
      <4>1. i \in 1 .. k
        BY <2>1, <3>2
      <4> QED BY <2>7, <2>9, <4>1
    <3> QED BY <3>1, <3>2
  <2>11. Spelled(d, first, k + 1)
    <3>1. \E h, x : /\ WordList(d, k + 1, h, x)
                   /\ \A i \in 1 .. k + 1 : SubSeq(d, h[i], x[i]) = W(first + i)
      BY <2>9, <2>10
    <3>2. d \in Seq(Printable) /\ SingleBlanks(d) /\ (d[Len(d)] = BLANK <=> sep = <<BLANK>>)
      BY <2>8 DEF LongerByWord
    <3> QED BY <2>4, <3>1, <3>2 DEF Spelled, W
  <2> QED BY <2>1, <2>2, <2>11
<1> HIDE DEF S
<1>6. \A k \in 0 .. N - first : k \in S
  BY <1>1, <1>4, <1>5, InductUpTo
<1>7. N - first \in S /\ first + (N - first) = N
  BY <1>1, <1>6
<1> QED BY <1>2, <1>7 DEF S

(* The words that the tokens point at have characters, none of them blank. *)
LEMMA TokensSpellWords ==
  ASSUME InputInv, LineInv, phase = "dispatching"
  PROVE  \A k \in 1 .. Len(tokens) : /\ StringAt(input, tokens[k]) \in Seq(Printable) \ {<<>>}
                                     /\ \A j \in 1 .. Len(StringAt(input, tokens[k])) :
                                          StringAt(input, tokens[k])[j] # BLANK
<1>1. shown \in Seq(Printable) /\ Len(shown) \in Nat
  BY DEF InputInv, Texts
<1>2. PICK from, upto : Listed(shown, from, upto)
  BY DEF LineInv
<1> SUFFICES ASSUME NEW k \in 1 .. Len(tokens)
             PROVE  /\ SubSeq(shown, from[k], upto[k]) \in Seq(Printable) \ {<<>>}
                    /\ \A j \in 1 .. Len(SubSeq(shown, from[k], upto[k])) :
                         SubSeq(shown, from[k], upto[k])[j] # BLANK
  BY <1>2 DEF Listed
<1> DEFINE b == from[k]
           e == upto[k]
           q == SubSeq(shown, b, e)
<1>3. /\ b \in 1 .. Len(shown) /\ e \in b .. Len(shown)
      /\ \A j \in b .. e : shown[j] # BLANK
  BY <1>2 DEF Listed, WordList, WordAt, BeginsAt
<1> HIDE DEF b, e
<1>4. b \in Int /\ e \in Int /\ b <= e /\ \A j \in b .. e : shown[j] \in Printable
  <2>1. b \in Int /\ e \in Int /\ b <= e /\ \A j \in b .. e : j \in 1 .. Len(shown)
    BY <1>1, <1>3
  <2> QED BY <1>1, <2>1
<1>5. /\ q \in Seq(Printable) /\ Len(q) = IF b <= e THEN e - b + 1 ELSE 0
      /\ \A j \in 1 .. e - b + 1 : q[j] = shown[b + j - 1]
  BY <1>4, SubSeqProperties
<1> HIDE DEF q
<1>6. Len(q) = e - b + 1 /\ Len(q) # 0
  BY <1>4, <1>5
<1>7. ASSUME NEW j \in 1 .. Len(q) PROVE q[j] # BLANK
  <2>1. b + j - 1 \in b .. e /\ j \in 1 .. e - b + 1
    BY <1>4, <1>6
  <2> QED BY <1>3, <1>5, <2>1
<1>8. q # <<>>
  BY <1>6
<1> QED BY <1>5, <1>7, <1>8 DEF q, b, e

-----------------------------------------------------------------------------
(* read_line never writes outside its array, no token begins outside it,   *)
(* and a command gets no more tokens than there is room for, however long  *)
(* the line and whatever the lines before have left.                       *)
THEOREM InputTyping == Spec => []InputTypeOK
<1>1. InputInv => InputTypeOK
  BY DEF InputInv
<1> QED BY <1>1, InputInvInit, InputInvNext, ModesInvNext, PTL DEF Spec

(* A program that comes to its end gives the terminal back as it found it, *)
(* in any number of runs of which any may be killed.                       *)
THEOREM GivingBack == Spec => TerminalGivenBack
<1>1. ModesInv /\ ModesInv' /\ [Next]_vars
        => [/\ phase' = "reading" => terminal' = "keys"
            /\ phase = "ended" /\ phase' = "off" => terminal' = before]_vars
  <2> SUFFICES ASSUME ModesInv, ModesInv', Next
               PROVE  /\ phase' = "reading" => terminal' = "keys"
                      /\ phase = "ended" /\ phase' = "off" => terminal' = before
    OBVIOUS
  <2>1. phase' = "reading" => terminal' = "keys"
    BY DEF ModesInv
  <2>2. ASSUME phase = "ended", phase' = "off" PROVE terminal' = before
    <3>1. MainReturns
      BY <2>2 DEF Next, PrintableKey, BackspaceKey, EnterKey, Reads, ControlKey, Parse, Dispatch,
                  InputEnds, Boots, Dies
    <3> QED BY <2>2, <3>1 DEF MainReturns, Restored, ModesInv
  <2> QED BY <2>1, <2>2
<1> QED BY <1>1, InputInvInit, ModesInvNext, PTL DEF Spec, TerminalGivenBack

(* What a command gets are the words of the line as it shows on the        *)
(* screen, whatever was edited or dropped and whatever the lines before    *)
(* have left in the array, as long as the words are no more than `tokens'  *)
(* has room for: by OverrunsAreLong no command runs otherwise.             *)
THEOREM WordsReachCommands == Spec => []CommandGetsWords
<1>1. InputInv /\ LineInv => CommandGetsWords
  <2> SUFFICES ASSUME InputInv, LineInv, phase = "dispatching"
               PROVE  [k \in DOMAIN tokens |-> StringAt(input, tokens[k])] = Words(shown)
    BY DEF CommandGetsWords
  <2>1. shown \in Seq(Printable) /\ tokens \in Seq(0 .. limit)
    BY DEF InputInv, Texts
  <2>2. PICK from, upto : Listed(shown, from, upto)
    BY DEF LineInv
  <2>3. Words(shown) = [k \in 1 .. Len(tokens) |-> SubSeq(shown, from[k], upto[k])]
    BY <2>1, <2>2, WordsAreListed DEF Listed
  <2>4. DOMAIN tokens = 1 .. Len(tokens)
    BY <2>1
  <2> QED BY <2>2, <2>3, <2>4 DEF Listed
<1> QED BY <1>1, InputInvInit, InputInvNext, ModesInvNext, LineInvInit, LineInvNext, PTL DEF Spec

(* shell_run skips a line when the screen shows nothing but blanks, and    *)
(* only then.                                                              *)
THEOREM BlankLinesSkipped == Spec => SkipsExactlyBlankLines
<1>1. InputInv /\ LineInv /\ [Next]_vars
        => [phase = "entered" /\ phase' \in {"reading", "dispatching", "overrun"}
              => (phase' = "reading" <=> Words(shown) = <<>>)]_vars
  <2> SUFFICES ASSUME InputInv, LineInv, Next, phase = "entered",
                      phase' \in {"reading", "dispatching", "overrun"}
               PROVE  phase' = "reading" <=> Words(shown) = <<>>
    OBVIOUS
  <2>1. Parse
    BY DEF Next, PrintableKey, BackspaceKey, EnterKey, Reads, ControlKey, Dispatch, InputEnds,
           Boots, MainReturns, Dies, Cleared
  <2>2. phase' = "reading" <=> my_strlen(my_str_trim(input), 0) = 0
    BY <2>1 DEF Parse, IsSkipped
  <2>3. input \in Arrays /\ shown \in Texts /\ Holds(input, shown)
    BY DEF InputInv, InputTypeOK, LineInv, Arrays
  <2>4. my_strlen(my_str_trim(input), 0) = 0 <=> Words(shown) = <<>>
    BY <2>3, BlankLines, OtherLines
  <2> QED BY <2>2, <2>4
<1> QED BY <1>1, InputInvInit, InputInvNext, ModesInvNext, LineInvInit, LineInvNext, PTL
           DEF Spec, SkipsExactlyBlankLines

(* Only a line of more words than `tokens' has room for overruns it, and   *)
(* every such line does.                                                   *)
THEOREM OverrunsAreLong == Spec => []OnlyLongLinesOverrun
<1>1. InputInv /\ LineInv => OnlyLongLinesOverrun
  <2> SUFFICES ASSUME InputInv, LineInv PROVE OnlyLongLinesOverrun
    OBVIOUS
  <2>1. shown \in Seq(Printable) /\ tokens \in Seq(0 .. limit) /\ Len(tokens) <= MAX_TOKENS
    BY DEF InputInv, InputTypeOK, Texts
  <2>2. ASSUME NEW N, NEW from, NEW upto, WordList(shown, N, from, upto)
        PROVE  N \in Nat /\ Len(Words(shown)) = N
    <3>1. N \in Nat
      BY <2>2 DEF WordList, Ascending
    <3>2. Words(shown) = [k \in 1 .. N |-> SubSeq(shown, from[k], upto[k])]
      BY <2>1, <2>2, WordsAreListed
    <3> QED BY <3>1, <3>2
  <2>3. phase = "overrun" => Len(Words(shown)) > MAX_TOKENS
    BY <2>2 DEF LineInv, TooMany
  <2>4. phase = "dispatching" => Len(Words(shown)) <= MAX_TOKENS
    BY <2>1, <2>2 DEF LineInv, Listed
  <2> QED BY <2>3, <2>4 DEF OnlyLongLinesOverrun
<1> QED BY <1>1, InputInvInit, InputInvNext, ModesInvNext, LineInvInit, LineInvNext, PTL DEF Spec

(* echo and write join the words after their first one or two, which are   *)
(* never more than `tokens' has room for, with one blank between two of    *)
(* them and none around them, and lose none.                               *)
THEOREM ArgumentsSpaced == Spec => []ArgumentsAreSpaced
<1>1. InputInv /\ LineInv => ArgumentsAreSpaced
  <2> SUFFICES ASSUME InputInv, LineInv, phase = "dispatching",
                      NEW first \in {1, 2}, Len(tokens) > first
               PROVE  /\ IsSpaced(Joined(first))
                      /\ Words(Joined(first)) = SubSeq(Words(shown), first + 1, Len(tokens))
    BY DEF ArgumentsAreSpaced
  <2> DEFINE N == Len(tokens)
             J == Joined(first)
             Q == Words(shown)
  <2>1. shown \in Seq(Printable) /\ N \in Nat /\ first \in Nat /\ first <= N /\ N - first \in Nat
    BY DEF InputInv, Texts
  <2>2. Spelled(J, first, N - first)
    BY <2>1, TokensSpellWords, JoiningSpells
  <2> HIDE DEF J
  <2>3. IsSpaced(J)
    <3>1. ASSUME NEW i \in 1 .. Len(J), J[i] = BLANK
          PROVE  1 < i /\ i < Len(J) /\ J[i - 1] # BLANK /\ J[i + 1] # BLANK
      <4>1. J \in Seq(Printable) /\ SingleBlanks(J)
            /\ (J = <<>> \/ (J[Len(J)] = BLANK <=> first + (N - first) < N))
        BY <2>2 DEF Spelled
      <4>2. J # <<>>
        BY <3>1
      <4>3. J[Len(J)] # BLANK
        BY <2>1, <4>1, <4>2
      <4>4. i < Len(J)
        BY <3>1, <4>1, <4>3
      <4> QED BY <3>1, <4>1, <4>4 DEF SingleBlanks
    <3> QED BY <3>1 DEF IsSpaced
  <2>4. Words(J) = [i \in 1 .. N - first |-> StringAt(input, tokens[first + i])]
    <3>1. PICK f, u : /\ WordList(J, N - first, f, u)
                      /\ \A i \in 1 .. N - first :
                           SubSeq(J, f[i], u[i]) = StringAt(input, tokens[first + i])
      BY <2>2 DEF Spelled
    <3>2. J \in Seq(Printable)
      BY <2>2 DEF Spelled
    <3>3. Words(J) = [i \in 1 .. N - first |-> SubSeq(J, f[i], u[i])]
      BY <3>1, <3>2, WordsAreListed
    <3> QED BY <3>1, <3>3
  <2>5. Q = [k \in 1 .. N |-> StringAt(input, tokens[k])]
    <3>1. PICK from, upto : Listed(shown, from, upto)
      BY DEF LineInv
    <3>2. Q = [k \in 1 .. N |-> SubSeq(shown, from[k], upto[k])]
      BY <2>1, <3>1, WordsAreListed DEF Listed
    <3> QED BY <3>1, <3>2 DEF Listed
  <2> HIDE DEF Q
  <2>6. SubSeq(Q, first + 1, N) = [i \in 1 .. N - first |-> Q[(first + 1) + i - 1]]
    <3>1. first + 1 \in Int /\ N \in Int /\ N - (first + 1) + 1 = N - first
      BY <2>1
    <3> QED BY <2>1, <3>1, StretchOf
  <2>7. ASSUME NEW i \in 1 .. N - first
        PROVE  Q[(first + 1) + i - 1] = StringAt(input, tokens[first + i])
    <3>1. (first + 1) + i - 1 = first + i /\ first + i \in 1 .. N
      BY <2>1
    <3> QED BY <2>5, <3>1
  <2> QED BY <2>3, <2>4, <2>6, <2>7 DEF J, Q
<1> QED BY <1>1, InputInvInit, InputInvNext, ModesInvNext, LineInvInit, LineInvNext, PTL DEF Spec
=============================================================================
