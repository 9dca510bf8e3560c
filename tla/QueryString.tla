----------------------------- MODULE QueryString -----------------------------
(***************************************************************************)
(* What the user types in a page and what the server reads.  The pages put *)
(* the text of their fields behind keys, percent-encoded; Crow splits the  *)
(* query at its ampersands and decodes each value where it stands, in the  *)
(* buffer that holds the whole URL, and looks keys up in that buffer.      *)
(* The buffer is a sequence of characters ended by Nul.  GET requests are  *)
(* encoded by encodeURIComponent, the login form by URLSearchParams, which *)
(* writes a space as a plus sign.                                          *)
(*                                                                         *)
(* The page's text comes into the buffer one character after the other;    *)
(* each turn of the loops of qs_parse and of qs_decode is a step.          *)
(***************************************************************************)
EXTENDS Naturals, Sequences, SequencesExt, Functions

CONSTANTS
    Plain,       \* characters that are sent as they are
    Escapes,     \* the others: a function from the character to its two digits
    Keys,        \* the keys of a request, in their order, without such characters
    ValueLength  \* bound: characters of a value

Nul == "NUL"
MaxPairs == 256    \* MAX_KEY_VALUE_PAIRS_COUNT
Characters == Plain \cup DOMAIN Escapes

ASSUME QueryStringAssumption ==
    /\ Escapes \in [DOMAIN Escapes -> Plain \X Plain]
    /\ IsInjective(Escapes)
    /\ Plain \cap DOMAIN Escapes = {}
    /\ {"?", "&", "=", "#", "%", "+", " "} \subseteq DOMAIN Escapes
    /\ Nul \notin Characters
    /\ Keys \in Seq(Seq(Plain)) /\ Keys # <<>> /\ Len(Keys) <= MaxPairs
    /\ IsInjective(Keys)
    /\ ValueLength \in Nat

VARIABLES
    typed,   \* typed[k]: the text behind Keys[k]
    form,    \* the request is encoded by URLSearchParams
    qs,      \* the buffer
    stage,   \* "typing", then in qs_parse "pairs" and "values", in qs_decode "value", "read"
    entry,   \* the key whose text is typed
    qs_kv,   \* where the pairs begin
    decoded, \* number of pairs whose values have been decoded
    from,    \* the place in the buffer that is read next
    to,      \* qs_decode: the place that is written next
    places   \* history: places[k]: where the code of each typed character begins, and
             \* where the last one ends

queryVars == <<typed, form, qs, stage, entry, qs_kv, decoded, from, to, places>>

-----------------------------------------------------------------------------
(* The browser *)

Code(c, asForm) ==
    IF c \in Plain THEN <<c>>
    ELSE IF c = " " /\ asForm THEN <<"+">>
    ELSE <<"%", Escapes[c][1], Escapes[c][2]>>

\* The buffer holds the URL from its question mark on, or the question mark put
\* before the body of a form.
QueryInit ==
    /\ typed = [k \in DOMAIN Keys |-> <<>>]
    /\ form \in BOOLEAN
    /\ qs = <<"?">> \o Keys[1] \o <<"=">>
    /\ stage = "typing" /\ entry = 1
    /\ qs_kv = <<>> /\ decoded = 0 /\ from = 0 /\ to = 0
    /\ places = [k \in DOMAIN Keys |-> IF k = 1 THEN <<Len(Keys[1]) + 3>> ELSE <<>>]

TypeCharacter(c) ==
    /\ stage = "typing" /\ Len(typed[entry]) < ValueLength
    /\ typed' = [typed EXCEPT ![entry] = Append(@, c)]
    /\ qs' = qs \o Code(c, form)
    /\ places' = [places EXCEPT ![entry] = Append(@, Len(qs') + 1)]
    /\ UNCHANGED <<form, stage, entry, qs_kv, decoded, from, to>>

\* The next key, behind an ampersand.
NextEntry ==
    /\ stage = "typing" /\ entry < Len(Keys)
    /\ entry' = entry + 1
    /\ qs' = qs \o <<"&">> \o Keys[entry + 1] \o <<"=">>
    /\ places' = [places EXCEPT ![entry + 1] = <<Len(qs') + 1>>]
    /\ UNCHANGED <<typed, form, stage, qs_kv, decoded, from, to>>

-----------------------------------------------------------------------------
(* Crow *)

\* strcspn: the first place of s from p on with one of chars, or the end.
Span(s, p, chars) ==
    CHOOSE q \in p..Len(s) :
        /\ s[q] \in chars \cup {Nul}
        /\ \A r \in p..(q - 1) : s[r] \notin chars \cup {Nul}

\* The request is sent, and qs_parse begins behind the question mark.
Send ==
    /\ stage = "typing" /\ entry = Len(Keys)
    /\ qs' = Append(qs, Nul)
    /\ stage' = "pairs"
    /\ from' = Span(qs', 1, {"?", "#"}) + 1
    /\ UNCHANGED <<typed, form, entry, qs_kv, decoded, to, places>>

\* One turn of its first loop: a pair ends at an ampersand.
FindPair ==
    /\ stage = "pairs"
    /\ qs_kv' = Append(qs_kv, from)
    /\ LET end == Span(qs, from, {"&"})
       IN IF qs[end] = Nul \/ Len(qs_kv') = MaxPairs
          THEN stage' = "values" /\ UNCHANGED from
          ELSE from' = end + 1 /\ UNCHANGED stage
    /\ UNCHANGED <<typed, form, qs, entry, decoded, to, places>>

\* One turn of its second loop: the value of the next pair is to be decoded in
\* place; a pair without one is ended.
NextPair ==
    /\ stage = "values"
    /\ IF decoded = Len(qs_kv)
       THEN stage' = "read" /\ UNCHANGED <<qs, decoded, from, to>>
       ELSE LET p == Span(qs, qs_kv[decoded + 1], {"=", "&", "#"}) IN
            IF qs[p] \in {"&", Nul}
            THEN /\ qs' = [qs EXCEPT ![p] = Nul]
                 /\ decoded' = decoded + 1
                 /\ UNCHANGED <<stage, from, to>>
            ELSE /\ stage' = "value"
                 /\ from' = p + 1 /\ to' = p + 1
                 /\ UNCHANGED <<qs, decoded>>
    /\ UNCHANGED <<typed, form, entry, qs_kv, places>>

\* Mutant of Stops: a value does not end at an ampersand.
StopsLate == {"=", "#", Nul}

Stops == {"=", "#", "&", Nul}    \* not CROW_QS_ISQSCHR

\* Two hexadecimal digits follow; the browser writes those of Escapes only.
IsEscape(p) ==
    \E c \in DOMAIN Escapes : Escapes[c] = <<qs[p + 1], qs[p + 2]>>

Escaped(p) ==
    CHOOSE c \in DOMAIN Escapes : Escapes[c] = <<qs[p + 1], qs[p + 2]>>

Put(c, width) ==
    /\ qs' = [qs EXCEPT ![to] = c]
    /\ from' = from + width /\ to' = to + 1
    /\ UNCHANGED <<stage, decoded>>

\* One turn of qs_decode.
DecodeCharacter ==
    /\ stage = "value"
    /\ IF qs[from] \in Stops \/ (qs[from] = "%" /\ ~IsEscape(from))
       THEN /\ qs' = [qs EXCEPT ![to] = Nul]
            /\ decoded' = decoded + 1
            /\ stage' = "values"
            /\ UNCHANGED <<from, to>>
       ELSE \/ qs[from] = "+" /\ Put(" ", 1)
            \/ qs[from] = "%" /\ Put(Escaped(from), 3)
            \/ qs[from] \notin {"+", "%"} /\ Put(qs[from], 1)
    /\ UNCHANGED <<typed, form, entry, qs_kv, places>>

QueryNext ==
    \/ \E c \in Characters : TypeCharacter(c)
    \/ NextEntry \/ Send \/ FindPair \/ NextPair \/ DecodeCharacter

QuerySpec == QueryInit /\ [][QueryNext]_queryVars

\* qs_strncmp: the pair at p has this key and no longer one.
IsKey(key, p) == /\ \A k \in DOMAIN key : qs[p + k - 1] = key[k]
                 /\ qs[p + Len(key)] \in Stops

\* The text from p to the next Nul.
CString(p) == SubSeq(qs, p, Span(qs, p, {}) - 1)

\* qs_k2v: the value of the first pair with this key.
ValueOf(key) ==
    LET k == SelectInSeq(qs_kv, LAMBDA p : IsKey(key, p))
    IN CString(Span(qs, qs_kv[k], {"="}) + 1)

-----------------------------------------------------------------------------
(* Properties *)

QueryTypeOK ==
    /\ typed \in [DOMAIN Keys -> Seq(Characters)]
    /\ form \in BOOLEAN
    /\ qs \in Seq(Characters \cup {Nul})
    /\ stage \in {"typing", "pairs", "values", "value", "read"}
    /\ entry \in DOMAIN Keys
    /\ qs_kv \in Seq(DOMAIN qs) /\ Len(qs_kv) <= Len(Keys)
    /\ decoded \in 0..Len(qs_kv)
    /\ from \in Nat /\ to \in Nat
    /\ places \in [DOMAIN Keys -> Seq(Nat)]

\* The server reads under each key exactly what the user typed, whatever signs
\* are in it: signs of the query's own syntax, escapes, spaces and plus signs.
ServerReadsWhatWasTyped ==
    stage = "read" => \A k \in DOMAIN Keys : ValueOf(Keys[k]) = typed[k]

\* Decoding a value leaves the pairs that are still to be decoded alone.
DecodeStaysInPair ==
    \A k \in DOMAIN qs_kv : k > decoded + 1 =>
        \A p \in qs_kv[k]..Len(qs) : qs'[p] = qs[p]

\* query_string: what a page encodes is what the handler reads, and qs_decode,
\* which works in place, stays inside its pair.
QueryIsRead == []ServerReadsWhatWasTyped /\ [][DecodeStaysInPair]_queryVars

=============================================================================
