----------------------------- MODULE ParserProofs -----------------------------
(***************************************************************************)
(* What HTTPParser puts together is what the client sent, for all texts of *)
(* paths, queries, headers and bodies, any number of requests on the       *)
(* connection and every way their bytes are cut into reads; and what       *)
(* query_string reads from a URL or a form is what the user typed, for all *)
(* texts, keys and numbers of keys.                                        *)
(*                                                                         *)
(* ParserInv says where the parser is after every byte, next to what was   *)
(* sent: each kind of byte, and the end of a read, takes it to the next    *)
(* place of the request, and the last byte of a request to its answer.     *)
(*                                                                         *)
(* QueryInv says what the buffer holds: pair behind pair (Layout), how far *)
(* qs_parse has come (Parsing), and each pair still encoded, in hand or    *)
(* decoded (Contents); qs_decode never writes beyond where it reads.       *)
(***************************************************************************)
EXTENDS CrowParser, QueryString, SequenceTheorems, FiniteSetTheorems, TLAPS

-----------------------------------------------------------------------------
(* The parser of a connection                                              *)

\* A piece grows by the letter behind what was collected so far.
LEMMA TextGrows ==
    ASSUME NEW text \in Text, NEW done \in Text, NEW piece \in Text, NEW m \in Nat, m < Len(text),
           done \o piece = SubSeq(text, 1, m)
    PROVE  /\ Append(piece, text[m + 1]) \in Text
           /\ done \o Append(piece, text[m + 1]) = SubSeq(text, 1, m + 1)
<1>1. text[m + 1] \in Letters
  BY DEF Text
<1>2. Append(piece, text[m + 1]) \in Text
  BY <1>1 DEF Text
<1>3. PICK s : s = SubSeq(text, 1, m)
  OBVIOUS
<1>4. s \in Seq(Letters) /\ Len(s) = m /\ \A j \in 1..m : s[j] = text[j]
  BY <1>3 DEF Text
<1>5. PICK t : t = SubSeq(text, 1, m + 1)
  OBVIOUS
<1>6. t \in Seq(Letters) /\ Len(t) = m + 1 /\ \A j \in 1..m + 1 : t[j] = text[j]
  BY <1>5 DEF Text
<1>7. PICK u : u = Append(piece, text[m + 1])
  OBVIOUS
<1>8. /\ u \in Seq(Letters) /\ Len(u) = Len(piece) + 1 /\ u[Len(piece) + 1] = text[m + 1]
      /\ \A j \in 1..Len(piece) : u[j] = piece[j]
  BY <1>1, <1>7 DEF Text
<1>9. /\ done \o piece = s
      /\ Len(done) + Len(piece) = m
      /\ \A j \in 1..m : s[j] = IF j <= Len(done) THEN done[j] ELSE piece[j - Len(done)]
  <2>1. done \in Seq(Letters) /\ piece \in Seq(Letters) /\ done \o piece = s
    BY <1>3 DEF Text
  <2>2. /\ Len(s) = Len(done) + Len(piece)
        /\ \A j \in 1..Len(done) + Len(piece) : s[j] = IF j <= Len(done) THEN done[j] ELSE piece[j - Len(done)]
    BY <2>1
  <2> QED
    BY <1>4, <2>1, <2>2
<1>10. PICK v : v = done \o u
  OBVIOUS
<1>11. /\ v \in Seq(Letters) /\ Len(v) = Len(done) + Len(u)
       /\ \A j \in 1..Len(done) + Len(u) : v[j] = IF j <= Len(done) THEN done[j] ELSE u[j - Len(done)]
  BY <1>8, <1>10 DEF Text
<1>12. PICK d \in Nat, l \in Nat : d = Len(done) /\ l = Len(piece)
  BY DEF Text
<1>13. d + l = m /\ Len(v) = m + 1
  BY <1>8, <1>9, <1>11, <1>12
<1>14. ASSUME NEW j \in 1..m + 1 PROVE v[j] = t[j]
  <2>1. v[j] = IF j <= d THEN done[j] ELSE u[j - d]
    BY <1>8, <1>11, <1>12, <1>13
  <2>2. t[j] = text[j]
    BY <1>6
  <2>3. CASE j <= m
    <3>1. j \in 1..m /\ (j <= d \/ j - d \in 1..l)
      BY <1>12, <1>13, <2>3
    <3>2. text[j] = IF j <= d THEN done[j] ELSE piece[j - d]
      BY <1>4, <1>9, <1>12, <3>1
    <3> QED
      BY <1>8, <1>12, <2>1, <2>2, <3>1, <3>2
  <2>4. CASE j = m + 1
    <3>1. ~(j <= d) /\ j - d = l + 1
      <4>1. \A a, b \in Nat : ~(a + b + 1 <= a) /\ (a + b + 1) - a = b + 1
        OBVIOUS
      <4>2. d + l + 1 = j
        BY <1>13, <2>4
      <4> QED
        BY <4>1, <4>2, Zenon
    <3> QED
      BY <1>8, <1>12, <2>1, <2>2, <2>4, <3>1
  <2> QED
    BY <2>3, <2>4
<1>15. v = t
  BY <1>6, <1>11, <1>13, <1>14, SeqEqual
<1> QED
  BY <1>2, <1>5, <1>7, <1>10, <1>15

\* A text of which nothing was collected.
LEMMA NoneOf == ASSUME NEW text PROVE SubSeq(text, 1, 0) = <<>>
  BY SubSeqEmpty

LEMMA AllOf == ASSUME NEW text \in Text PROVE SubSeq(text, 1, Len(text)) = text
  BY SubSeqFull DEF Text

LEMMA JoinedTexts ==
    ASSUME NEW s \in Text, NEW t \in Text
    PROVE  s \o t \in Text /\ s \o <<>> = s /\ <<>> \o s = s /\ (s \o t) \o <<>> = s \o t
<1>1. s \o t \in Text
  BY ConcatProperties DEF Text
<1> QED
  BY <1>1, ConcatEmptySeq DEF Text

\* What a request is made of.
LEMMA RequestIs ==
    ASSUME NEW r \in Requests
    PROVE  /\ r.path \in Text /\ r.query \in Text /\ r.body \in Text /\ r.close \in BOOLEAN
           /\ r.headers \in Seq(Header)
           /\ \A i \in DOMAIN r.headers : r.headers[i] \in Header /\ Len(r.headers[i].field) > 0
           /\ Target(r) \in Text
           /\ Len(r.path) > 0 /\ Len(r.path) <= Len(Target(r))
           /\ Len(Target(r)) = Len(r.path) => Target(r) = r.path
           /\ \A j \in 1..Len(r.path) : Target(r)[j] = r.path[j] /\ r.path[j] # Mark
           /\ Len(Target(r)) > Len(r.path) => Target(r)[Len(r.path) + 1] = Mark
<1>1. /\ r \in [path : Text, query : Text, body : Text, close : BOOLEAN, headers : Seq(Header)]
      /\ r.path # <<>>
      /\ \A k \in DOMAIN r.path : r.path[k] # Mark
      /\ \A k \in DOMAIN r.headers : r.headers[k].field # <<>>
      /\ Mark \in Letters
  BY CrowParserAssumption DEF Text, Header
<1>2. /\ r.path \in Text /\ r.query \in Text /\ r.body \in Text /\ r.close \in BOOLEAN
      /\ r.headers \in Seq(Header)
  BY <1>1
<1>3. ASSUME NEW i \in DOMAIN r.headers
      PROVE  r.headers[i] \in Header /\ Len(r.headers[i].field) > 0
  <2>1. r.headers[i] \in Header
    BY <1>2
  <2>2. r.headers[i].field \in Text /\ r.headers[i].field # <<>>
    BY <1>1, <2>1 DEF Header
  <2> QED
    BY <2>1, <2>2, EmptySeq DEF Text
<1>4. Len(r.path) \in Nat /\ Len(r.path) > 0 /\ DOMAIN r.path = 1..Len(r.path)
  BY <1>1, <1>2, EmptySeq DEF Text
<1>5. CASE r.query = <<>>
  <2>1. Target(r) = r.path
    BY <1>2, <1>5, ConcatEmptySeq DEF Target, Text
  <2> QED
    BY <1>1, <1>2, <1>3, <1>4, <2>1
<1>6. CASE r.query # <<>>
  <2>1. <<Mark>> \in Text /\ Len(<<Mark>>) = 1 /\ <<Mark>>[1] = Mark
    BY <1>1 DEF Text
  <2>2. PICK t : t = <<Mark>> \o r.query
    OBVIOUS
  <2>3. t \in Text /\ Len(t) = 1 + Len(r.query) /\ t[1] = Mark
    BY <1>2, <2>1, <2>2, ConcatProperties DEF Text
  <2>4. Target(r) = r.path \o t
    BY <1>6, <2>2 DEF Target
  <2>5. /\ Target(r) \in Text
        /\ Len(Target(r)) = Len(r.path) + Len(t)
        /\ \A j \in 1..Len(r.path) + Len(t) :
             Target(r)[j] = IF j <= Len(r.path) THEN r.path[j] ELSE t[j - Len(r.path)]
    <3>1. r.path \in Seq(Letters) /\ t \in Seq(Letters)
      BY <1>2, <2>3 DEF Text
    <3> QED
      BY <2>4, <3>1 DEF Text
  <2>6. Len(r.query) \in Nat
    BY <1>2 DEF Text
  <2>7. Target(r)[Len(r.path) + 1] = Mark
    <3>1. PICK l \in Nat, q \in Nat : l = Len(r.path) /\ q = Len(r.query)
      BY <1>4, <2>6
    <3>5. PICK n \in Nat : n = l + 1
      OBVIOUS
    <3>2. Len(t) = 1 + q
      BY <2>3, <3>1
    <3>3. \A a, b \in Nat : a + 1 \in 1..a + (1 + b) /\ ~(a + 1 <= a) /\ (a + 1) - a = 1
      OBVIOUS
    <3>4. n \in 1..l + (1 + q) /\ ~(n <= l) /\ n - l = 1
      BY <3>1, <3>5, <3>3, Zenon
    <3> QED
      BY <2>3, <2>5, <3>1, <3>5, <3>2, <3>4
  <2>8. \A j \in 1..Len(r.path) : Target(r)[j] = r.path[j] /\ r.path[j] # Mark
    BY <1>1, <1>4, <2>3, <2>5, <2>6
  <2> QED
    <3>1. Len(r.path) <= Len(Target(r)) /\ Len(Target(r)) # Len(r.path)
      <4>1. PICK l \in Nat, q \in Nat : l = Len(r.path) /\ q = Len(r.query)
        BY <1>4, <2>6
      <4>2. Len(Target(r)) = l + (1 + q)
        BY <2>3, <2>5, <4>1
      <4>3. \A a, b \in Nat : a <= a + (1 + b) /\ a + (1 + b) # a
        OBVIOUS
      <4> QED
        BY <4>1, <4>2, <4>3, Zenon
    <3> QED
      BY <1>2, <1>3, <1>4, <2>5, <2>7, <2>8, <3>1
<1> QED
  BY <1>5, <1>6

\* The path is what comes before the query.
LEMMA PathOf ==
    ASSUME NEW r \in Requests
    PROVE  SubSeq(Target(r), 1, Len(r.path)) = r.path
<1>1. PICK s : s = SubSeq(Target(r), 1, Len(r.path))
  OBVIOUS
<1>2. /\ Target(r) \in Seq(Letters) /\ r.path \in Seq(Letters)
      /\ Len(r.path) \in Nat /\ Len(r.path) <= Len(Target(r))
      /\ \A j \in 1..Len(r.path) : Target(r)[j] = r.path[j]
  BY RequestIs DEF Text
<1>3. s \in Seq(Letters) /\ Len(s) = Len(r.path) /\ \A j \in 1..Len(r.path) : s[j] = Target(r)[j]
  BY <1>1, <1>2
<1> QED
  BY <1>1, <1>2, <1>3, SeqEqual

-----------------------------------------------------------------------------
(* Headers *)

\* A list grows by a header behind all that it has.
LEMMA ListGrows ==
    ASSUME NEW got \in Seq(Header), NEW sent \in Seq(Header),
           NEW m \in DOMAIN sent, NEW S \in SUBSET (1..m - 1), ListsOnly(got, sent, S)
    PROVE  ListsOnly(Append(got, sent[m]), sent, S \cup {m})
<1>1. /\ m \in Nat /\ m > 0 /\ m \notin S
      /\ \A j \in S : j \in Nat /\ j < m
  OBVIOUS
<1>2. IsFiniteSet(S) /\ Cardinality(S) \in Nat /\ Cardinality(S \cup {m}) = Cardinality(S) + 1
  <2>1. IsFiniteSet(1..m - 1)
    BY <1>1, FS_Interval
  <2>2. IsFiniteSet(S)
    BY <2>1, FS_Subset
  <2> QED
    BY <1>1, <2>2, FS_AddElement, FS_CardinalityType
<1>3. PICK t : t = Append(got, sent[m])
  OBVIOUS
<1>4. sent[m] \in Header /\ Len(got) = Cardinality(S)
  BY DEF ListsOnly
<1>5. /\ Len(t) = Cardinality(S) + 1
      /\ t[Cardinality(S) + 1] = sent[m]
      /\ \A n \in 1..Cardinality(S) : t[n] = got[n]
  BY <1>3, <1>4
<1>6. ASSUME NEW k \in S \cup {m}
      PROVE  t[Cardinality({j \in S \cup {m} : j <= k})] = sent[k]
  <2>1. CASE k = m
    <3>1. {j \in S \cup {m} : j <= k} = S \cup {m}
      BY <1>1, <2>1
    <3> QED
      BY <1>2, <1>5, <2>1, <3>1
  <2>2. CASE k # m
    <3>1. k \in S /\ {j \in S \cup {m} : j <= k} = {j \in S : j <= k}
      BY <1>1, <2>2
    <3>2. PICK U : U = {j \in S : j <= k}
      OBVIOUS
    <3>3. U \subseteq S /\ k \in U
      BY <1>1, <3>1, <3>2
    <3>4. /\ IsFiniteSet(U) /\ Cardinality(U) <= Cardinality(S)
      BY <1>2, <3>3, FS_Subset
    <3>5. Cardinality(U) \in Nat /\ Cardinality(U) # 0
      BY <3>3, <3>4, FS_EmptySet, FS_CardinalityType
    <3>6. got[Cardinality(U)] = sent[k]
      BY <3>1, <3>2 DEF ListsOnly
    <3>7. Cardinality(U) \in 1..Cardinality(S)
      BY <1>2, <3>4, <3>5
    <3>8. t[Cardinality(U)] = sent[k]
      BY <1>5, <3>6, <3>7
    <3> QED
      BY <3>1, <3>2, <3>8
  <2> QED
    BY <2>1, <2>2
<1> QED
  BY <1>2, <1>3, <1>5, <1>6 DEF ListsOnly

LEMMA EmptyList == ASSUME NEW sent PROVE ListsOnly(<<>>, sent, {})
  BY FS_EmptySet DEF ListsOnly

-----------------------------------------------------------------------------
(* What the callbacks do *)

SameUrl(t, q) ==
    /\ t.raw_url = q.raw_url /\ t.url = q.url /\ t.qs_point = q.qs_point
    /\ (t.behind <=> q.behind) /\ (t.cut <=> q.cut)
SameHeaders(t, q) ==
    t.headers = q.headers /\ t.field = q.field /\ t.value = q.value /\ t.building = q.building
SameBody(t, q) == t.body = q.body /\ t.left = q.left

\* t is q after what is marked was handed to its callback.
Delivered(t, q) ==
    /\ t \in ParserFields
    /\ t.piece = <<>> /\ t.state = q.state
    /\ t.qs_point = q.qs_point /\ t.left = q.left
    /\ (t.behind <=> q.behind) /\ (t.cut <=> q.cut)
    /\ q.marked = "url" => t.raw_url = q.raw_url \o q.piece /\ t.url = UrlOf(t)
    /\ q.marked # "url" => SameUrl(t, q)
    /\ q.marked = "field" => t.building = 1
    /\ q.marked = "field" /\ q.building = 1 =>
         t.headers = q.headers /\ t.value = q.value /\ t.field = q.field \o q.piece
    /\ q.marked = "field" /\ q.building = 0 =>
         /\ t.headers = IF q.value # <<>> THEN WithHeader(q) ELSE q.headers
         /\ t.value = <<>> /\ t.field = q.piece
    /\ q.marked = "value" => t.building = 0 /\ t.headers = q.headers /\ t.field = q.field
    /\ q.marked = "value" /\ q.building = 0 => t.value = q.value \o q.piece
    /\ q.marked = "value" /\ q.building = 1 => t.value = q.piece
    /\ q.marked \notin {"field", "value"} => SameHeaders(t, q)
    /\ q.marked = "body" => t.body = q.body \o q.piece
    /\ q.marked # "body" => t.body = q.body

LEMMA WithHeaderIs ==
    ASSUME NEW q \in ParserFields
    PROVE  WithHeader(q) \in Seq(Header)
<1>1. [field |-> q.field, value |-> q.value] \in Header
  BY DEF Header, ParserFields
<1> QED
  BY <1>1 DEF WithHeader, ParserFields

LEMMA UrlOfIs ==
    ASSUME NEW q \in ParserFields
    PROVE  UrlOf(q) \in Text
<1>1. q.raw_url \in Text /\ q.qs_point \in Nat
  BY DEF ParserFields
<1>2. CASE q.qs_point # 0 /\ q.qs_point <= Len(q.raw_url)
  <2>1. SubSeq(q.raw_url, 1, q.qs_point) \in Text
    BY <1>1, <1>2 DEF Text
  <2> QED
    BY <1>2, <2>1 DEF UrlOf
<1>3. CASE ~(q.qs_point # 0 /\ q.qs_point <= Len(q.raw_url))
  BY <1>1, <1>3 DEF UrlOf
<1> QED
  BY <1>2, <1>3

LEMMA UrlCallback ==
    ASSUME NEW q \in ParserFields, q.marked = "url"
    PROVE  Delivered(Deliver(q), q)
<1>1. PICK raw : raw = q.raw_url \o q.piece
  OBVIOUS
<1>2. raw \in Text
  BY <1>1, JoinedTexts DEF ParserFields
<1>3. PICK a : a = [q EXCEPT !.raw_url = raw]
  OBVIOUS
<1>4. /\ a \in ParserFields
      /\ a.raw_url = raw /\ a.state = q.state /\ a.qs_point = q.qs_point
      /\ (a.behind <=> q.behind) /\ (a.cut <=> q.cut)
      /\ SameHeaders(a, q) /\ SameBody(a, q)
  BY <1>2, <1>3 DEF ParserFields, SameHeaders, SameBody
<1>5. PICK u \in Text : u = UrlOf(a)
  BY <1>4, UrlOfIs
<1>6. PICK b : b = [a EXCEPT !.url = u]
  OBVIOUS
<1>7. /\ b \in ParserFields
      /\ b.raw_url = raw /\ b.url = u /\ b.state = q.state /\ b.qs_point = q.qs_point
      /\ (b.behind <=> q.behind) /\ (b.cut <=> q.cut)
      /\ SameHeaders(b, q) /\ SameBody(b, q)
  BY <1>4, <1>6 DEF ParserFields, SameHeaders, SameBody
<1>8. PICK t : t = [b EXCEPT !.piece = <<>>]
  OBVIOUS
<1>9. /\ t \in ParserFields
      /\ t.piece = <<>>
      /\ t.raw_url = raw /\ t.url = u /\ t.state = q.state /\ t.qs_point = q.qs_point
      /\ (t.behind <=> q.behind) /\ (t.cut <=> q.cut)
      /\ SameHeaders(t, q) /\ SameBody(t, q)
  <2>1. <<>> \in Text
    BY DEF Text
  <2> QED
    BY <1>7, <1>8, <2>1 DEF ParserFields, SameHeaders, SameBody
<1>10. Deliver(q) = t
  <2>1. OnUrl(q, q.piece) = b
    BY <1>1, <1>3, <1>5, <1>6 DEF OnUrl
  <2> QED
    BY <1>8, <2>1 DEF Deliver
<1>11. u = UrlOf(t)
  BY <1>4, <1>5, <1>9 DEF UrlOf
<1> QED
  BY <1>1, <1>9, <1>10, <1>11 DEF Delivered, SameBody

LEMMA FieldCallback ==
    ASSUME NEW q \in ParserFields, q.marked = "field"
    PROVE  Delivered(Deliver(q), q)
<1>0. <<>> \in Text /\ q.piece \in Text /\ q.field \in Text
  BY DEF Text, ParserFields
<1>1. CASE q.building = 1
  <2>1. PICK f : f = q.field \o q.piece
    OBVIOUS
  <2>2. f \in Text
    BY <1>0, <2>1, JoinedTexts
  <2>3. PICK a : a = [q EXCEPT !.field = f]
    OBVIOUS
  <2>4. /\ a \in ParserFields
        /\ a.state = q.state /\ SameUrl(a, q) /\ SameBody(a, q)
        /\ a.headers = q.headers /\ a.value = q.value /\ a.building = 1 /\ a.field = f
    BY <1>1, <2>2, <2>3 DEF ParserFields, SameUrl, SameBody
  <2>5. PICK t : t = [a EXCEPT !.piece = <<>>]
    OBVIOUS
  <2>6. /\ t \in ParserFields
        /\ t.piece = <<>>
        /\ t.state = q.state /\ SameUrl(t, q) /\ SameBody(t, q)
        /\ t.headers = q.headers /\ t.value = q.value /\ t.building = 1 /\ t.field = f
    BY <1>0, <2>4, <2>5 DEF ParserFields, SameUrl, SameBody
  <2>7. Deliver(q) = t
    <3>1. OnHeaderField(q, q.piece) = a
      BY <1>1, <2>1, <2>3 DEF OnHeaderField
    <3> QED
      BY <2>5, <3>1 DEF Deliver
  <2> QED
    <3>1. q.marked = "field" /\ q.marked # "url" /\ q.marked # "value" /\ q.marked # "body" /\ q.building # 0
      BY <1>1
    <3>2. /\ t.qs_point = q.qs_point /\ t.left = q.left /\ t.body = q.body
          /\ (t.behind <=> q.behind) /\ (t.cut <=> q.cut)
      BY <2>6 DEF SameUrl, SameBody
    <3>3. Delivered(t, q)
      BY <2>1, <2>6, <3>1, <3>2 DEF Delivered
    <3> QED
      BY <2>7, <3>3
<1>2. CASE q.building = 0
  <2>1. PICK h : h = IF q.value # <<>> THEN WithHeader(q) ELSE q.headers
    OBVIOUS
  <2>2. h \in Seq(Header)
    BY <2>1, WithHeaderIs DEF ParserFields
  <2>3. PICK a : a = [q EXCEPT !.headers = h]
    OBVIOUS
  <2>4. a \in ParserFields /\ a.state = q.state /\ SameUrl(a, q) /\ SameBody(a, q) /\ a.headers = h
    BY <2>2, <2>3 DEF ParserFields, SameUrl, SameBody
  <2>5. PICK b : b = [a EXCEPT !.value = <<>>]
    OBVIOUS
  <2>6. /\ b \in ParserFields /\ b.state = q.state /\ SameUrl(b, q) /\ SameBody(b, q)
        /\ b.headers = h /\ b.value = <<>>
    BY <1>0, <2>4, <2>5 DEF ParserFields, SameUrl, SameBody
  <2>7. PICK c : c = [b EXCEPT !.field = q.piece]
    OBVIOUS
  <2>8. /\ c \in ParserFields /\ c.state = q.state /\ SameUrl(c, q) /\ SameBody(c, q)
        /\ c.headers = h /\ c.value = <<>> /\ c.field = q.piece
    BY <1>0, <2>6, <2>7 DEF ParserFields, SameUrl, SameBody
  <2>9. PICK d : d = [c EXCEPT !.building = 1]
    OBVIOUS
  <2>10. /\ d \in ParserFields /\ d.state = q.state /\ SameUrl(d, q) /\ SameBody(d, q)
         /\ d.headers = h /\ d.value = <<>> /\ d.field = q.piece /\ d.building = 1
    BY <2>8, <2>9 DEF ParserFields, SameUrl, SameBody
  <2>11. PICK t : t = [d EXCEPT !.piece = <<>>]
    OBVIOUS
  <2>12. /\ t \in ParserFields /\ t.state = q.state /\ SameUrl(t, q) /\ SameBody(t, q)
         /\ t.headers = h /\ t.value = <<>> /\ t.field = q.piece /\ t.building = 1 /\ t.piece = <<>>
    BY <1>0, <2>10, <2>11 DEF ParserFields, SameUrl, SameBody
  <2>13. Deliver(q) = t
    <3>1. OnHeaderField(q, q.piece) = d
      BY <1>2, <2>1, <2>3, <2>5, <2>7, <2>9 DEF OnHeaderField
    <3> QED
      BY <2>11, <3>1 DEF Deliver
  <2> QED
    BY <1>2, <2>1, <2>12, <2>13 DEF Delivered, SameUrl, SameBody
<1> QED
  BY <1>1, <1>2 DEF ParserFields

LEMMA ValueCallback ==
    ASSUME NEW q \in ParserFields, q.marked = "value"
    PROVE  Delivered(Deliver(q), q)
<1>0. <<>> \in Text /\ q.piece \in Text /\ q.value \in Text /\ q.building \in {0, 1}
  BY DEF Text, ParserFields
<1>1. PICK v : v = IF q.building = 0 THEN q.value \o q.piece ELSE q.piece
  OBVIOUS
<1>2. v \in Text
  BY <1>0, <1>1, JoinedTexts
<1>3. PICK a : a = [q EXCEPT !.value = v]
  OBVIOUS
<1>4. /\ a \in ParserFields /\ a.state = q.state /\ SameUrl(a, q) /\ SameBody(a, q)
      /\ a.headers = q.headers /\ a.field = q.field /\ a.building = q.building /\ a.value = v
  BY <1>2, <1>3 DEF ParserFields, SameUrl, SameBody
<1>5. PICK b : b = IF q.building = 0 THEN a ELSE [a EXCEPT !.building = 0]
  OBVIOUS
<1>6. /\ b \in ParserFields /\ b.state = q.state /\ SameUrl(b, q) /\ SameBody(b, q)
      /\ b.headers = q.headers /\ b.field = q.field /\ b.building = 0 /\ b.value = v
  BY <1>4, <1>5 DEF ParserFields, SameUrl, SameBody
<1>7. PICK t : t = [b EXCEPT !.piece = <<>>]
  OBVIOUS
<1>8. /\ t \in ParserFields /\ t.state = q.state /\ SameUrl(t, q) /\ SameBody(t, q)
      /\ t.headers = q.headers /\ t.field = q.field /\ t.building = 0 /\ t.value = v /\ t.piece = <<>>
  BY <1>0, <1>6, <1>7 DEF ParserFields, SameUrl, SameBody
<1>9. Deliver(q) = t
  <2>1. OnHeaderValue(q, q.piece) = b
    BY <1>0, <1>1, <1>3, <1>5 DEF OnHeaderValue
  <2> QED
    BY <1>7, <2>1 DEF Deliver
<1> QED
  <2>1. q.marked = "value" /\ q.marked # "url" /\ q.marked # "field" /\ q.marked # "body"
    OBVIOUS
  <2>2. /\ t.qs_point = q.qs_point /\ t.left = q.left /\ t.body = q.body
        /\ (t.behind <=> q.behind) /\ (t.cut <=> q.cut)
    BY <1>8 DEF SameUrl, SameBody
  <2>3. q.building = 0 => t.value = q.value \o q.piece
    BY <1>1, <1>8
  <2>4. q.building = 1 => t.value = q.piece
    BY <1>1, <1>8
  <2>5. Delivered(t, q)
    BY <1>8, <2>1, <2>2, <2>3, <2>4 DEF Delivered
  <2> QED
    BY <1>9, <2>5

LEMMA BodyCallback ==
    ASSUME NEW q \in ParserFields, q.marked = "body"
    PROVE  Delivered(Deliver(q), q)
<1>0. <<>> \in Text /\ q.piece \in Text /\ q.body \in Text
  BY DEF Text, ParserFields
<1>1. PICK v : v = q.body \o q.piece
  OBVIOUS
<1>2. v \in Text
  BY <1>0, <1>1, JoinedTexts
<1>3. PICK a : a = [q EXCEPT !.body = v]
  OBVIOUS
<1>4. /\ a \in ParserFields /\ a.state = q.state /\ SameUrl(a, q) /\ SameHeaders(a, q)
      /\ a.left = q.left /\ a.body = v
  BY <1>2, <1>3 DEF ParserFields, SameUrl, SameHeaders
<1>5. PICK t : t = [a EXCEPT !.piece = <<>>]
  OBVIOUS
<1>6. /\ t \in ParserFields /\ t.state = q.state /\ SameUrl(t, q) /\ SameHeaders(t, q)
      /\ t.left = q.left /\ t.body = v /\ t.piece = <<>>
  BY <1>0, <1>4, <1>5 DEF ParserFields, SameUrl, SameHeaders
<1>7. Deliver(q) = t
  BY <1>1, <1>3, <1>5 DEF Deliver
<1> QED
  BY <1>1, <1>6, <1>7 DEF Delivered, SameUrl

LEMMA NoCallback ==
    ASSUME NEW q \in ParserFields, q.marked = "none"
    PROVE  Delivered(Deliver(q), q)
<1>1. PICK t : t = [q EXCEPT !.piece = <<>>]
  OBVIOUS
<1>2. /\ t \in ParserFields /\ t.state = q.state /\ SameUrl(t, q) /\ SameHeaders(t, q)
      /\ SameBody(t, q) /\ t.piece = <<>>
  <2>1. <<>> \in Text
    BY DEF Text
  <2> QED
    BY <1>1, <2>1 DEF ParserFields, SameUrl, SameHeaders, SameBody
<1>3. Deliver(q) = t
  BY <1>1 DEF Deliver
<1> QED
  BY <1>2, <1>3 DEF Delivered, SameUrl, SameBody

\* The mark stays when a read ends.
LEMMA DeliverIs ==
    ASSUME NEW q \in ParserFields, NEW t, t = Deliver(q)
    PROVE  Delivered(t, q)
<1>1. q.marked \in {"none", "url", "field", "value", "body"}
  BY DEF ParserFields
<1> QED
  BY <1>1, UrlCallback, FieldCallback, ValueCallback, BodyCallback, NoCallback

LEMMA MarkStays ==
    ASSUME NEW q \in ParserFields
    PROVE  Deliver(q).marked = q.marked
<1>1. q.marked \in {"none", "url", "field", "value", "body"}
  BY DEF ParserFields
<1> QED
  BY <1>1 DEF Deliver, OnUrl, OnHeaderField, OnHeaderValue, ParserFields

LEMMA UnmarkedIs ==
    ASSUME NEW q \in ParserFields, NEW t, t = Unmarked(q)
    PROVE  Delivered(t, q) /\ t.marked = "none"
<1>1. PICK d : d = Deliver(q)
  OBVIOUS
<1>2. Delivered(d, q)
  BY <1>1, DeliverIs
<1>3. t = [d EXCEPT !.marked = "none"]
  BY <1>1 DEF Unmarked
<1>4. d \in ParserFields
  BY <1>2 DEF Delivered
<1>5. /\ t \in ParserFields /\ t.marked = "none"
      /\ SameUrl(t, d) /\ SameHeaders(t, d) /\ SameBody(t, d) /\ t.state = d.state /\ t.piece = d.piece
  BY <1>3, <1>4 DEF ParserFields, SameUrl, SameHeaders, SameBody
<1>6. UrlOf(t) = UrlOf(d)
  BY <1>5 DEF UrlOf, SameUrl
<1> QED
  <2>1. /\ t.piece = <<>> /\ t.state = q.state
        /\ t.qs_point = q.qs_point /\ t.left = q.left
        /\ (t.behind <=> q.behind) /\ (t.cut <=> q.cut)
    BY <1>2, <1>5 DEF Delivered, SameUrl, SameBody
  <2>2. /\ q.marked = "url" => t.raw_url = q.raw_url \o q.piece /\ t.url = UrlOf(t)
        /\ q.marked # "url" => SameUrl(t, q)
    BY <1>2, <1>5, <1>6, <2>1 DEF Delivered, SameUrl
  <2>3. /\ t.headers = d.headers /\ t.field = d.field /\ t.value = d.value /\ t.building = d.building
        /\ t.body = d.body
    BY <1>5 DEF SameHeaders, SameBody
  <2> QED
    BY <1>2, <1>5, <2>1, <2>2, <2>3 DEF Delivered, SameHeaders

LEMMA MarkedIs ==
    ASSUME NEW q \in ParserFields, NEW what \in {"url", "field", "value", "body"}, NEW c \in Letters,
           q.marked = what \/ q.piece = <<>>,
           NEW t, t = Marked(q, what, c)
    PROVE  /\ t \in ParserFields
           /\ t.marked = what /\ t.piece = Append(q.piece, c) /\ t.state = q.state
           /\ SameUrl(t, q) /\ SameHeaders(t, q) /\ SameBody(t, q)
<1>1. PICK s : s = Append(q.piece, c)
  OBVIOUS
<1>2. s \in Text /\ q.piece \in Text
  BY <1>1 DEF Text, ParserFields
<1>3. PICK a : a = IF q.marked = what THEN q ELSE [q EXCEPT !.marked = what]
  OBVIOUS
<1>4. /\ a \in ParserFields /\ a.marked = what /\ a.state = q.state
      /\ SameUrl(a, q) /\ SameHeaders(a, q) /\ SameBody(a, q)
  BY <1>3 DEF ParserFields, SameUrl, SameHeaders, SameBody
<1>5. t = [a EXCEPT !.piece = s]
  <2>1. q.piece = <<>> => s = <<c>>
    BY <1>1
  <2> QED
    BY <1>1, <1>3, <2>1 DEF Marked
<1> QED
  BY <1>1, <1>2, <1>4, <1>5 DEF ParserFields, SameUrl, SameHeaders, SameBody

LEMMA WithStateIs ==
    ASSUME NEW q \in ParserFields,
           NEW s \in {"start", "url", "headers", "field", "value", "body"},
           NEW t, t = [q EXCEPT !.state = s]
    PROVE  /\ t \in ParserFields
           /\ t.state = s /\ t.marked = q.marked /\ t.piece = q.piece
           /\ SameUrl(t, q) /\ SameHeaders(t, q) /\ SameBody(t, q)
  BY DEF ParserFields, SameUrl, SameHeaders, SameBody

-----------------------------------------------------------------------------
(* The parser and what was sent of the request under way *)

\* Between two parts of the headers.
Rests(q) == q.state = "headers" /\ q.marked = "none" /\ q.piece = <<>>

\* m letters of a field or a value were sent.
Collects(q, what, m) ==
    IF m = 0 THEN Rests(q) ELSE q.state = what /\ q.marked = what

NoHeaders(q) == q.headers = <<>> /\ q.field = <<>> /\ q.value = <<>> /\ q.building = 0
NoBody(q) == q.body = <<>> /\ q.left = 0

\* m letters of the URL were sent.
InUrl(q, r, m) ==
    /\ q.state = "url" /\ q.marked = "url"
    /\ q.raw_url \o q.piece = SubSeq(Target(r), 1, m)
    /\ m <= Len(r.path) => q.qs_point = 0
    /\ ~q.cut => q.raw_url = <<>>
    /\ ~q.cut /\ ~q.behind /\ m > Len(r.path) => q.qs_point = Len(r.path)
    /\ NoHeaders(q) /\ NoBody(q)

UrlRead(q, r) == q.raw_url = Target(r) /\ (~Misplaced(q, r) => q.url = r.path)
Within(q, r) == UrlRead(q, r) /\ NoBody(q)

\* The first m headers are listed, as far as they have a value.
WithValue(headers, m) == {j \in 1..m : headers[j].value # <<>>}
ListsFirst(q, headers, m) == ListsOnly(q.headers, headers, WithValue(headers, m))

\* Of the first m headers all but the last are listed, and that one is held back.
HoldsBack(q, headers, m) ==
    /\ q.building = 0
    /\ m = 0 => NoHeaders(q)
    /\ m # 0 => /\ ListsFirst(q, headers, m - 1)
                /\ q.field = headers[m].field /\ q.value = headers[m].value

\* m letters of the name of header i were sent; the header before it is held back
\* until the first of them are handed over.
InField(q, headers, i, m) ==
    \/ HoldsBack(q, headers, i - 1) /\ q.piece = SubSeq(headers[i].field, 1, m)
    \/ /\ q.building = 1 /\ q.value = <<>>
       /\ ListsFirst(q, headers, i - 1)
       /\ q.field \o q.piece = SubSeq(headers[i].field, 1, m)

\* m letters of the value of header i were sent.
InValue(q, headers, i, m) ==
    /\ q.building = 1 => q.value = <<>>
    /\ ListsFirst(q, headers, i - 1)
    /\ q.field = headers[i].field
    /\ q.value \o q.piece = SubSeq(headers[i].value, 1, m)

\* m letters of the body were sent, and some are missing.
InBody(q, r, m) ==
    /\ q.state = "body" /\ q.left = Len(r.body) - m
    /\ q.marked = "body" \/ (q.marked = "none" /\ q.piece = <<>>)
    /\ q.body \o q.piece = SubSeq(r.body, 1, m)
    /\ UrlRead(q, r)
    /\ ListsOnly(q.headers, r.headers, Kept(r.headers))

LEMMA LengthIs ==
    ASSUME NEW s \in Text
    PROVE  Len(s) \in Nat /\ DOMAIN s = 1..Len(s) /\ \A j \in 1..Len(s) : s[j] \in Letters
  BY DEF Text

LEMMA ClearedIs == Cleared \in ParserFields
<1>1. <<>> \in Text /\ <<>> \in Seq(Header)
  BY DEF Text
<1> QED
  BY <1>1 DEF Cleared, ParserFields

LEMMA FarAwayIs == FarAway \in Nat
  BY SMT DEF FarAway

\* The mark is where this URL began: as far behind as the letters of its piece.
MarkFits(mark, q) == q.state = "url" /\ ~q.cut /\ ~q.behind => mark = Len(q.piece)

Begun(q, late, point) ==
    [q EXCEPT !.state = "url", !.behind = late, !.qs_point = point]

BegunAs(t, q, late, point) ==
    /\ t \in ParserFields /\ t.state = "url" /\ (t.behind <=> late)
    /\ t.raw_url = q.raw_url /\ t.qs_point = point /\ (t.cut <=> q.cut)
    /\ SameHeaders(t, q) /\ SameBody(t, q) /\ t.piece = q.piece /\ t.marked = q.marked

LEMMA BegunIs ==
    ASSUME NEW q \in ParserFields, NEW late \in BOOLEAN, NEW point \in Nat
    PROVE  BegunAs(Begun(q, late, point), q, late, point)
<1>1. PICK a : a = [q EXCEPT !.state = "url"]
  OBVIOUS
<1>2. /\ a \in ParserFields /\ a.state = "url"
      /\ SameUrl(a, q) /\ SameHeaders(a, q) /\ SameBody(a, q) /\ a.piece = q.piece /\ a.marked = q.marked
  BY <1>1 DEF ParserFields, SameUrl, SameHeaders, SameBody
<1>3. PICK b : b = [a EXCEPT !.behind = late]
  OBVIOUS
<1>4. /\ b \in ParserFields /\ b.state = "url" /\ (b.behind <=> late)
      /\ b.raw_url = q.raw_url /\ b.qs_point = q.qs_point /\ (b.cut <=> q.cut)
      /\ SameHeaders(b, q) /\ SameBody(b, q) /\ b.piece = q.piece /\ b.marked = q.marked
  BY <1>2, <1>3 DEF ParserFields, SameUrl, SameHeaders, SameBody
<1>5. PICK d : d = [b EXCEPT !.qs_point = point]
  OBVIOUS
<1>6. /\ d \in ParserFields /\ d.state = b.state /\ (d.behind <=> b.behind)
      /\ d.raw_url = b.raw_url /\ d.qs_point = point /\ (d.cut <=> b.cut)
      /\ SameHeaders(d, b) /\ SameBody(d, b) /\ d.piece = b.piece /\ d.marked = b.marked
  <2>1. b \in ParserFields
    BY <1>4
  <2> QED
    BY <1>5, <2>1 DEF ParserFields, SameHeaders, SameBody
<1>7. Begun(q, late, point) = d
  BY <1>1, <1>3, <1>5 DEF Begun
<1> QED
  BY <1>4, <1>6, <1>7 DEF BegunAs, SameHeaders, SameBody

LEMMA UrlByteIs ==
    ASSUME NEW q \in ParserFields, NEW r \in Requests, NEW m \in 1..Len(Target(r)),
           \/ m = 1 /\ q = Cleared
           \/ m # 1 /\ InUrl(q, r, m - 1),
           url_start_mark \in Nat, MarkFits(url_start_mark, q),
           NEW t, t = WithUrlByte(q, Target(r)[m])
    PROVE  /\ t \in ParserFields /\ InUrl(t, r, m)
           /\ MarkFits(IF url_start_mark # 0 \/ q.state = "start" THEN url_start_mark + 1 ELSE 0, t)
<1>0. PICK p \in Nat : p = Len(r.path)
  BY RequestIs, LengthIs
<1>1. /\ q.raw_url \o q.piece = SubSeq(Target(r), 1, m - 1)
      /\ m - 1 <= p => q.qs_point = 0
      /\ ~q.cut => q.raw_url = <<>>
      /\ ~q.cut /\ ~q.behind /\ m - 1 > p => q.qs_point = p
      /\ q.marked = "url" \/ q.piece = <<>>
      /\ NoHeaders(q) /\ NoBody(q)
      /\ q.state = "url" \/ (q.state = "start" /\ m = 1)
  <2>1. CASE m = 1 /\ q = Cleared
    <3>1. /\ q.raw_url = <<>> /\ q.piece = <<>> /\ q.qs_point = 0 /\ q.state = "start"
          /\ NoHeaders(q) /\ NoBody(q)
      BY <2>1 DEF Cleared, NoHeaders, NoBody
    <3>2. <<>> \o <<>> = <<>> /\ m - 1 = 0
      BY <2>1, JoinedTexts DEF Text
    <3>3. SubSeq(Target(r), 1, m - 1) = <<>>
      BY <3>2, NoneOf
    <3>4. ~(m - 1 > p)
      BY <1>0, <3>2
    <3> QED
      BY <2>1, <3>1, <3>2, <3>3, <3>4
  <2>2. CASE m # 1 /\ InUrl(q, r, m - 1)
    BY <1>0, <2>2 DEF InUrl
  <2> QED
    BY <2>1, <2>2
<1>2. PICK c \in Letters : c = Target(r)[m]
  BY RequestIs, LengthIs
<1>3. PICK behind \in BOOLEAN : behind <=> (q.behind \/ (q.state = "start" /\ url_start_mark # 0))
  OBVIOUS
<1>4. PICK place \in Nat : place = PlaceOf(q)
  BY FarAwayIs DEF PlaceOf
<1>5. PICK point \in Nat : point = IF c = Mark /\ q.qs_point = 0 THEN place ELSE q.qs_point
  BY DEF ParserFields
<1>6. PICK d : d = Begun(q, behind, point)
  OBVIOUS
<1>9. /\ d \in ParserFields /\ d.state = "url" /\ (d.behind <=> behind)
      /\ d.raw_url = q.raw_url /\ d.qs_point = point /\ (d.cut <=> q.cut)
      /\ SameHeaders(d, q) /\ SameBody(d, q) /\ d.piece = q.piece /\ d.marked = q.marked
  <2>1. BegunAs(d, q, behind, point)
    BY <1>6, BegunIs
  <2> QED
    BY <2>1 DEF BegunAs
<1>10. Target(r) \in Text /\ Len(Target(r)) \in Nat
  BY RequestIs, LengthIs
<1>11. /\ t \in ParserFields
       /\ t.marked = "url" /\ t.piece = Append(q.piece, Target(r)[m]) /\ t.state = "url"
       /\ SameUrl(t, d) /\ SameHeaders(t, q) /\ SameBody(t, q)
  <2>1. d.marked = "url" \/ d.piece = <<>>
    BY <1>1, <1>9
  <2>2. t = Marked(d, "url", c)
    <3>1. d = [q EXCEPT !.state = "url", !.behind = behind, !.qs_point = point]
      BY <1>6 DEF Begun
    <3>2. behind = (q.behind \/ (q.state = "start" /\ url_start_mark # 0))
      BY <1>3
    <3> QED
      BY <1>2, <1>4, <1>5, <3>1, <3>2 DEF WithUrlByte
  <2>3. /\ t \in ParserFields
        /\ t.marked = "url" /\ t.piece = Append(d.piece, c) /\ t.state = d.state
        /\ SameUrl(t, d) /\ SameHeaders(t, d) /\ SameBody(t, d)
    BY <1>9, <2>1, <2>2, MarkedIs
  <2>4. SameHeaders(t, q) /\ SameBody(t, q)
    BY <1>9, <2>3 DEF SameHeaders, SameBody
  <2>5. t.piece = Append(q.piece, Target(r)[m]) /\ t.state = "url"
    BY <1>2, <1>9, <2>3
  <2> QED
    BY <2>3, <2>4, <2>5
<1>12. q.raw_url \o Append(q.piece, Target(r)[m]) = SubSeq(Target(r), 1, m)
  <2>1. PICK l \in Nat : l = m - 1
    OBVIOUS
  <2>2. l + 1 = m /\ l < Len(Target(r))
    BY <1>10, <2>1 DEF Text
  <2>3. q.raw_url \in Text /\ q.piece \in Text
    BY DEF ParserFields
  <2>4. q.raw_url \o q.piece = SubSeq(Target(r), 1, l)
    BY <1>1, <2>1
  <2>5. q.raw_url \o Append(q.piece, Target(r)[l + 1]) = SubSeq(Target(r), 1, l + 1)
    BY ZenonT(60), <1>10, <2>2, <2>3, <2>4, TextGrows
  <2> QED
    BY <2>2, <2>5
<1>13. /\ p > 0 /\ (m <= p => c # Mark) /\ (m = p + 1 => c = Mark)
  <2>1. p > 0 /\ p <= Len(Target(r)) /\ (\A j \in 1..p : Target(r)[j] # Mark)
    BY <1>0, RequestIs
  <2>2. Len(Target(r)) > p => Target(r)[p + 1] = Mark
    BY <1>0, RequestIs
  <2>3. m <= p => m \in 1..p
    OBVIOUS
  <2>4. m = p + 1 => Len(Target(r)) > p
    BY <1>10
  <2> QED
    BY <1>2, <2>1, <2>2, <2>3, <2>4
<1>14. m <= p => point = 0
  BY <1>1, <1>5, <1>13
<1>15. ASSUME ~q.cut, ~behind
       PROVE  /\ q.raw_url = <<>> /\ Len(q.piece) = m - 1 /\ place = m - 1
              /\ url_start_mark = m - 1 /\ (q.state = "start" \/ url_start_mark # 0)
  <2>1. q.piece = SubSeq(Target(r), 1, m - 1)
    BY <1>1, <1>15, JoinedTexts DEF ParserFields
  <2>2. Len(q.piece) = m - 1
    <3>1. m - 1 \in 0..Len(Target(r)) /\ Target(r) \in Seq(Letters)
      BY <1>10 DEF Text
    <3> QED
      BY <2>1, <3>1
  <2>3. CASE q.state = "start" /\ m = 1
    BY <1>1, <1>3, <1>4, <1>15, <2>2, <2>3 DEF PlaceOf
  <2>4. CASE q.state = "url"
    <3>1. ~q.behind /\ m # 1
      BY <1>3, <1>15, <2>4 DEF Cleared
    <3>2. url_start_mark = m - 1 /\ url_start_mark # 0
      BY <1>15, <2>2, <2>4, <3>1 DEF MarkFits
    <3> QED
      BY <1>1, <1>4, <1>15, <2>2, <3>2 DEF PlaceOf
  <2> QED
    BY <1>1, <2>3, <2>4
<1>16. ASSUME ~q.cut, ~behind, m > p PROVE point = p
  <2>1. q.behind = FALSE
    BY <1>3, <1>16 DEF ParserFields
  <2>2. CASE m = p + 1
    <3>1. place = p /\ q.qs_point = 0
      BY <1>1, <1>15, <1>16, <2>2
    <3> QED
      BY <1>5, <1>13, <2>2, <3>1
  <2>3. CASE m > p + 1
    <3>1. m - 1 > p
      BY <2>3
    <3> QED
      BY <1>1, <1>5, <1>13, <1>16, <2>1, <3>1
  <2> QED
    BY <1>16, <2>2, <2>3
<1>17. (t.cut <=> q.cut) /\ (t.behind <=> behind) /\ t.raw_url = q.raw_url /\ t.qs_point = point
  BY <1>9, <1>11 DEF SameUrl
<1>18. t.raw_url \o t.piece = SubSeq(Target(r), 1, m)
  BY <1>11, <1>12, <1>17
<1>19. NoHeaders(t) /\ NoBody(t)
  BY <1>1, <1>11 DEF NoHeaders, NoBody, SameHeaders, SameBody
<1>20. InUrl(t, r, m)
  BY <1>0, <1>1, <1>11, <1>14, <1>16, <1>17, <1>18, <1>19 DEF InUrl
<1>21. MarkFits(IF url_start_mark # 0 \/ q.state = "start" THEN url_start_mark + 1 ELSE 0, t)
  <2>1. SUFFICES ASSUME ~q.cut, ~behind
                 PROVE  (IF url_start_mark # 0 \/ q.state = "start" THEN url_start_mark + 1 ELSE 0)
                          = Len(t.piece)
    BY <1>17 DEF MarkFits
  <2>2. Len(t.piece) = (m - 1) + 1
    <3>1. q.piece \in Seq(Letters) /\ Len(q.piece) = m - 1
      BY <1>15, <2>1 DEF ParserFields, Text
    <3> QED
      BY <1>2, <1>11, <3>1
  <2> QED
    BY <1>15, <2>1, <2>2
<1> QED
  BY <1>11, <1>20, <1>21

LEMMA VersionIs ==
    ASSUME NEW q \in ParserFields, NEW r \in Requests, InUrl(q, r, Len(Target(r))),
           NEW u, u = Unmarked(q),
           NEW t, t = [u EXCEPT !.state = "headers"]
    PROVE  t \in ParserFields /\ Within(t, r) /\ Rests(t) /\ HoldsBack(t, r.headers, 0)
<1>1. Delivered(u, q) /\ u.marked = "none"
  BY UnmarkedIs
<1>2. u \in ParserFields /\ u.piece = <<>>
  BY <1>1 DEF Delivered
<1>3. /\ t \in ParserFields /\ t.state = "headers" /\ t.marked = "none" /\ t.piece = <<>>
      /\ SameUrl(t, u) /\ SameHeaders(t, u) /\ SameBody(t, u)
  BY <1>1, <1>2, WithStateIs
<1>4. q.marked = "url" /\ q.raw_url \o q.piece = SubSeq(Target(r), 1, Len(Target(r)))
  BY DEF InUrl
<1>5. Target(r) \in Text /\ u.raw_url = Target(r) /\ u.url = UrlOf(u)
  BY <1>1, <1>4, RequestIs, AllOf, ZenonT(30) DEF Delivered
<1>6. NoHeaders(t) /\ NoBody(t)
  BY <1>1, <1>3, <1>4 DEF InUrl, NoHeaders, NoBody, Delivered, SameHeaders, SameBody
<1>7. ASSUME ~Misplaced(t, r) PROVE t.url = r.path
  <2>1. (t.cut <=> q.cut) /\ (t.behind <=> q.behind) /\ u.qs_point = q.qs_point
    BY <1>1, <1>3 DEF Delivered, SameUrl
  <2>2. PICK l \in Nat, p \in Nat : l = Len(Target(r)) /\ p = Len(r.path)
    BY <1>5, RequestIs, LengthIs
  <2>3. p > 0 /\ p <= l /\ (l = p => Target(r) = r.path)
    BY <2>2, RequestIs
  <2>4. CASE l > p
    <3>1. r.query # <<>>
      <4>1. r.query = <<>> => Target(r) = r.path
        BY RequestIs, JoinedTexts DEF Target
      <4> QED
        BY <2>2, <2>4, <4>1
    <3>2. ~q.cut /\ ~q.behind
      BY <1>7, <2>1, <3>1 DEF Misplaced
    <3>3. q.qs_point = p
      BY <2>2, <2>4, <3>2 DEF InUrl
    <3>4. u.qs_point = p /\ p # 0 /\ p <= Len(u.raw_url)
      BY <1>5, <2>1, <2>2, <2>3, <3>3
    <3>5. UrlOf(u) = SubSeq(u.raw_url, 1, p)
      BY <3>4 DEF UrlOf
    <3> QED
      BY <1>3, <1>5, <2>2, <3>5, PathOf DEF SameUrl
  <2>5. CASE l = p
    <3>1. q.qs_point = 0
      BY <2>2, <2>5 DEF InUrl
    <3>2. UrlOf(u) = u.raw_url
      BY <2>1, <3>1 DEF UrlOf
    <3> QED
      BY <1>3, <1>5, <2>3, <2>5, <3>2 DEF SameUrl
  <2> QED
    BY <2>3, <2>4, <2>5
<1> QED
  BY <1>3, <1>5, <1>6, <1>7 DEF Within, UrlRead, Rests, HoldsBack, NoHeaders, SameUrl

\* The header that is held back is listed, if it has a value, when the next begins.
LEMMA HeldBackListed ==
    ASSUME NEW q \in ParserFields, NEW headers \in Seq(Header), NEW m \in 0..Len(headers),
           HoldsBack(q, headers, m)
    PROVE  ListsOnly(IF q.value # <<>> THEN WithHeader(q) ELSE q.headers,
                     headers, WithValue(headers, m))
<1>1. CASE m = 0
  <2>1. WithValue(headers, m) = {}
    BY <1>1 DEF WithValue
  <2>2. q.headers = <<>> /\ q.value = <<>>
    BY <1>1 DEF HoldsBack, NoHeaders
  <2> QED
    BY <2>1, <2>2, EmptyList
<1>2. CASE m # 0
  <2>1. /\ m \in DOMAIN headers /\ headers[m] \in Header
        /\ q.headers \in Seq(Header)
    BY <1>2 DEF ParserFields
  <2>2. /\ ListsOnly(q.headers, headers, WithValue(headers, m - 1))
        /\ q.field = headers[m].field /\ q.value = headers[m].value
    BY <1>2 DEF HoldsBack, ListsFirst
  <2>3. CASE q.value = <<>>
    <3>1. WithValue(headers, m) = WithValue(headers, m - 1)
      <4>1. \A j : j \in 1..m /\ j # m <=> j \in 1..m - 1
        BY <1>2
      <4>2. headers[m].value = <<>>
        BY <2>2, <2>3
      <4> QED
        BY <4>1, <4>2 DEF WithValue
    <3> QED
      BY <2>2, <2>3, <3>1
  <2>4. CASE q.value # <<>>
    <3>1. WithValue(headers, m) = WithValue(headers, m - 1) \cup {m}
      BY <1>2, <2>2, <2>4 DEF WithValue
    <3>2. WithValue(headers, m - 1) \in SUBSET (1..m - 1)
      BY DEF WithValue
    <3>3. [field |-> q.field, value |-> q.value] = headers[m]
      BY <2>1, <2>2 DEF Header
    <3>4. WithHeader(q) = Append(q.headers, headers[m])
      BY <3>3 DEF WithHeader
    <3>5. ListsOnly(Append(q.headers, headers[m]), headers, WithValue(headers, m - 1) \cup {m})
      BY <2>1, <2>2, <3>2, ListGrows
    <3> QED
      BY <2>4, <3>1, <3>4, <3>5
  <2> QED
    BY <2>3, <2>4
<1> QED
  BY <1>1, <1>2

\* The last header is listed in any case.
LEMMA LastListed ==
    ASSUME NEW q \in ParserFields, NEW headers \in Seq(Header),
           \A i \in DOMAIN headers : Len(headers[i].field) > 0,
           HoldsBack(q, headers, Len(headers))
    PROVE  ListsOnly(IF q.field # <<>> THEN WithHeader(q) ELSE q.headers, headers, Kept(headers))
<1>0. PICK m \in Nat : m = Len(headers)
  OBVIOUS
<1>1. CASE m = 0
  <2>1. Kept(headers) = {}
    <3>1. DOMAIN headers = {}
      <4>1. DOMAIN headers = 1..Len(headers)
        BY LenProperties
      <4>2. 1..0 = {}
        OBVIOUS
      <4> QED
        BY <1>0, <1>1, <4>1, <4>2
    <3> QED
      BY <3>1 DEF Kept
  <2>2. q.headers = <<>> /\ q.field = <<>>
    BY <1>0, <1>1 DEF HoldsBack, NoHeaders
  <2> QED
    BY <2>1, <2>2, EmptyList
<1>2. CASE m # 0
  <2>1. /\ m \in DOMAIN headers /\ headers[m] \in Header
        /\ q.headers \in Seq(Header)
    BY <1>0, <1>2 DEF ParserFields
  <2>2. /\ ListsOnly(q.headers, headers, WithValue(headers, m - 1))
        /\ q.field = headers[m].field /\ q.value = headers[m].value
    BY <1>0, <1>2 DEF HoldsBack, ListsFirst
  <2>3. q.field # <<>>
    BY <2>1, <2>2
  <2>4. Kept(headers) = WithValue(headers, m - 1) \cup {m}
    <3>1. DOMAIN headers = 1..m
      BY <1>0
    <3> QED
      BY <1>0, <1>2, <3>1 DEF Kept, WithValue
  <2>5. WithValue(headers, m - 1) \in SUBSET (1..m - 1)
    BY DEF WithValue
  <2>6. [field |-> q.field, value |-> q.value] = headers[m]
    BY <2>1, <2>2 DEF Header
  <2>7. WithHeader(q) = Append(q.headers, headers[m])
    BY <2>6 DEF WithHeader
  <2>8. ListsOnly(Append(q.headers, headers[m]), headers, WithValue(headers, m - 1) \cup {m})
    BY <2>1, <2>2, <2>5, ListGrows
  <2> QED
    BY <2>3, <2>4, <2>7, <2>8
<1> QED
  BY <1>1, <1>2

\* What is parsed of the URL, and that there is no body, stays.
LEMMA WithinStays ==
    ASSUME NEW r, NEW q, NEW t, Within(q, r), SameUrl(t, q), SameBody(t, q)
    PROVE  Within(t, r)
  BY DEF Within, UrlRead, Misplaced, NoBody, SameUrl, SameBody

\* What was sent of a header.
LEMMA HeaderIs ==
    ASSUME NEW r \in Requests, NEW i \in DOMAIN r.headers
    PROVE  /\ r.headers \in Seq(Header) /\ i \in 1..Len(r.headers)
           /\ r.headers[i].field \in Text /\ r.headers[i].value \in Text
           /\ Len(r.headers[i].field) \in Nat /\ Len(r.headers[i].field) > 0
           /\ Len(r.headers[i].value) \in Nat
<1>1. r.headers \in Seq(Header) /\ r.headers[i] \in Header /\ Len(r.headers[i].field) > 0
  BY RequestIs
<1>2. r.headers[i].field \in Text /\ r.headers[i].value \in Text
  BY <1>1 DEF Header
<1>3. i \in 1..Len(r.headers)
  BY <1>1
<1> QED
  BY <1>1, <1>2, <1>3, LengthIs

\* A byte of a name or a value was put to the piece, and named the state.
Took(t, q, what, c) ==
    /\ t \in ParserFields /\ t.marked = what /\ t.state = what /\ t.piece = Append(q.piece, c)
    /\ SameUrl(t, q) /\ SameHeaders(t, q) /\ SameBody(t, q)

LEMMA TakesByte ==
    ASSUME NEW q \in ParserFields, NEW c \in Letters,
           NEW what \in {"field", "value"}, q.marked = what \/ q.piece = <<>>,
           NEW u, u = Marked(q, what, c),
           NEW t, t = [u EXCEPT !.state = what]
    PROVE  Took(t, q, what, c)
<1>1. /\ u \in ParserFields /\ u.marked = what /\ u.piece = Append(q.piece, c)
      /\ SameUrl(u, q) /\ SameHeaders(u, q) /\ SameBody(u, q)
  BY MarkedIs
<1>2. /\ t \in ParserFields /\ t.state = what /\ t.marked = u.marked /\ t.piece = u.piece
      /\ SameUrl(t, u) /\ SameHeaders(t, u) /\ SameBody(t, u)
  BY <1>1, WithStateIs
<1>3. SameUrl(t, q)
  BY <1>1, <1>2 DEF SameUrl
<1>4. SameHeaders(t, q)
  BY <1>1, <1>2 DEF SameHeaders
<1>5. SameBody(t, q)
  BY <1>1, <1>2 DEF SameBody
<1> QED
  BY <1>1, <1>2, <1>3, <1>4, <1>5 DEF Took

\* What is collected of a text that began with other pieces.
LEMMA TookLetter ==
    ASSUME NEW q \in ParserFields, NEW text \in Text, NEW m \in 1..Len(text), NEW done \in Text,
           done \o q.piece = SubSeq(text, 1, m - 1)
    PROVE  done \o Append(q.piece, text[m]) = SubSeq(text, 1, m)
<1>1. PICK l \in Nat : l = m - 1
  BY LengthIs
<1>2. l + 1 = m /\ l < Len(text)
  BY <1>1, LengthIs
<1>3. q.piece \in Text
  BY DEF ParserFields
<1>4. done \o q.piece = SubSeq(text, 1, l)
  BY <1>1
<1>5. done \o Append(q.piece, text[l + 1]) = SubSeq(text, 1, l + 1)
  BY <1>2, <1>3, <1>4, TextGrows
<1> QED
  BY <1>2, <1>5

LEMMA FieldGrows ==
    ASSUME NEW q \in ParserFields, NEW headers, NEW i,
           headers[i].field \in Text,
           NEW m \in 1..Len(headers[i].field), InField(q, headers, i, m - 1),
           NEW t, Took(t, q, "field", headers[i].field[m])
    PROVE  InField(t, headers, i, m)
<1>1. PICK text \in Text : text = headers[i].field
  OBVIOUS
<1>2. t.piece = Append(q.piece, text[m]) /\ q.piece \in Text /\ q.field \in Text /\ m \in 1..Len(text)
  BY <1>1 DEF Took, ParserFields
<1>3. t.headers = q.headers /\ t.field = q.field /\ t.value = q.value /\ t.building = q.building
  BY DEF Took, SameHeaders
<1>4. CASE HoldsBack(q, headers, i - 1) /\ q.piece = SubSeq(text, 1, m - 1)
  <2>1. HoldsBack(t, headers, i - 1)
    BY <1>3, <1>4 DEF HoldsBack, NoHeaders, ListsFirst
  <2>2. <<>> \in Text /\ <<>> \o q.piece = SubSeq(text, 1, m - 1)
    BY <1>2, <1>4, JoinedTexts DEF Text
  <2>3. <<>> \o Append(q.piece, text[m]) = SubSeq(text, 1, m)
    BY <1>2, <2>2, TookLetter
  <2>4. <<>> \o Append(q.piece, text[m]) = Append(q.piece, text[m])
    <3>1. Append(q.piece, text[m]) \in Text
      BY <1>2 DEF Text
    <3> QED
      BY <3>1, JoinedTexts
  <2> QED
    BY <1>1, <1>2, <2>1, <2>3, <2>4 DEF InField
<1>5. CASE /\ q.building = 1 /\ q.value = <<>>
           /\ ListsFirst(q, headers, i - 1)
           /\ q.field \o q.piece = SubSeq(text, 1, m - 1)
  <2>1. q.field \o Append(q.piece, text[m]) = SubSeq(text, 1, m)
    BY <1>2, <1>5, TookLetter
  <2>2. t.field \o t.piece = SubSeq(text, 1, m)
    BY <1>2, <1>3, <2>1
  <2>3. ListsFirst(t, headers, i - 1)
    BY <1>3, <1>5 DEF ListsFirst
  <2> QED
    BY <1>1, <1>3, <1>5, <2>2, <2>3 DEF InField
<1> QED
  BY <1>1, <1>4, <1>5 DEF InField

LEMMA TookStays ==
    ASSUME NEW q, NEW r, Within(q, r), NEW what, NEW c, NEW t, Took(t, q, what, c), NEW m \in Nat, m # 0
    PROVE  t \in ParserFields /\ Within(t, r) /\ Collects(t, what, m)
<1>1. Within(t, r)
  BY WithinStays DEF Took
<1> QED
  BY <1>1 DEF Took, Collects

LEMMA FieldByteIs ==
    ASSUME NEW q \in ParserFields, NEW r \in Requests, NEW i \in DOMAIN r.headers,
           NEW m \in 1..Len(r.headers[i].field),
           Within(q, r), Collects(q, "field", m - 1), InField(q, r.headers, i, m - 1),
           NEW u, u = Marked(q, "field", r.headers[i].field[m]),
           NEW t, t = [u EXCEPT !.state = "field"]
    PROVE  /\ t \in ParserFields
           /\ Within(t, r) /\ Collects(t, "field", m) /\ InField(t, r.headers, i, m)
<1>1. /\ r.headers[i].field \in Text /\ r.headers[i].field[m] \in Letters /\ m \in Nat /\ m # 0
  BY HeaderIs, LengthIs
<1>2. q.marked = "field" \/ q.piece = <<>>
  BY DEF Collects, Rests
<1>3. Took(t, q, "field", r.headers[i].field[m])
  BY <1>1, <1>2, TakesByte
<1>4. InField(t, r.headers, i, m)
  BY <1>1, <1>3, FieldGrows
<1> QED
  BY <1>1, <1>3, <1>4, TookStays

LEMMA ColonByteIs ==
    ASSUME NEW q \in ParserFields, NEW r \in Requests, NEW i \in DOMAIN r.headers,
           NEW m, m = Len(r.headers[i].field),
           Within(q, r), Collects(q, "field", m), InField(q, r.headers, i, m),
           NEW u, u = Unmarked(q),
           NEW t, t = [u EXCEPT !.state = "headers"]
    PROVE  /\ t \in ParserFields
           /\ Within(t, r) /\ Rests(t) /\ InValue(t, r.headers, i, 0)
<1>1. PICK text \in Text : text = r.headers[i].field
  BY HeaderIs
<1>2. m \in Nat /\ m # 0 /\ SubSeq(text, 1, m) = text
  BY <1>1, HeaderIs, AllOf
<1>3. q.marked = "field"
  BY <1>2 DEF Collects
<1>4. Delivered(u, q) /\ u.marked = "none"
  BY UnmarkedIs
<1>5. u \in ParserFields /\ u.piece = <<>>
  BY <1>4 DEF Delivered
<1>6. /\ t \in ParserFields /\ t.state = "headers" /\ t.marked = "none" /\ t.piece = <<>>
      /\ SameUrl(t, u) /\ SameHeaders(t, u) /\ SameBody(t, u)
  BY <1>4, <1>5, WithStateIs
<1>7. SameUrl(t, q) /\ SameBody(t, q) /\ t.building = 1
  BY <1>3, <1>4, <1>6 DEF Delivered, SameUrl, SameBody, SameHeaders
<1>8. t.headers = u.headers /\ t.field = u.field /\ t.value = u.value
  BY <1>6 DEF SameHeaders
<1>9. /\ t.value = <<>> /\ t.field = text
      /\ ListsFirst(t, r.headers, i - 1)
  <2>1. CASE HoldsBack(q, r.headers, i - 1) /\ q.piece = SubSeq(r.headers[i].field, 1, m)
    <3>1. q.building = 0
      BY <2>1 DEF HoldsBack
    <3>2. /\ u.headers = IF q.value # <<>> THEN WithHeader(q) ELSE q.headers
          /\ u.value = <<>> /\ u.field = q.piece
      BY <1>3, <1>4, <3>1 DEF Delivered
    <3>3. i - 1 \in 0..Len(r.headers) /\ r.headers \in Seq(Header)
      BY HeaderIs
    <3>4. ListsOnly(u.headers, r.headers, WithValue(r.headers, i - 1))
      BY <2>1, <3>2, <3>3, HeldBackListed
    <3> QED
      BY <1>1, <1>2, <1>8, <2>1, <3>2, <3>4 DEF ListsFirst
  <2>2. CASE /\ q.building = 1 /\ q.value = <<>>
             /\ ListsFirst(q, r.headers, i - 1)
             /\ q.field \o q.piece = SubSeq(r.headers[i].field, 1, m)
    <3>1. u.headers = q.headers /\ u.value = q.value /\ u.field = q.field \o q.piece
      BY <1>3, <1>4, <2>2 DEF Delivered
    <3> QED
      BY <1>1, <1>2, <1>8, <2>2, <3>1 DEF ListsFirst
  <2> QED
    BY <2>1, <2>2 DEF InField
<1>10. t.value \o t.piece = SubSeq(r.headers[i].value, 1, 0)
  <2>1. <<>> \in Text
    BY DEF Text
  <2>2. <<>> \o <<>> = <<>>
    BY <2>1, JoinedTexts
  <2> QED
    BY <1>6, <1>9, <2>2, NoneOf
<1>11. InValue(t, r.headers, i, 0)
  BY <1>1, <1>9, <1>10 DEF InValue
<1> QED
  BY <1>6, <1>7, <1>11, WithinStays DEF Rests

LEMMA ValueGoesOn ==
    ASSUME NEW q \in ParserFields, NEW headers, NEW i,
           headers[i].value \in Text,
           NEW m \in 1..Len(headers[i].value), InValue(q, headers, i, m - 1),
           NEW t, Took(t, q, "value", headers[i].value[m])
    PROVE  InValue(t, headers, i, m)
<1>1. PICK text \in Text : text = headers[i].value
  OBVIOUS
<1>2. t.piece = Append(q.piece, text[m]) /\ q.value \in Text /\ m \in 1..Len(text)
  BY <1>1 DEF Took, ParserFields
<1>3. t.headers = q.headers /\ t.field = q.field /\ t.value = q.value /\ t.building = q.building
  BY DEF Took, SameHeaders
<1>4. q.value \o q.piece = SubSeq(text, 1, m - 1)
  BY <1>1 DEF InValue
<1>5. q.value \o Append(q.piece, text[m]) = SubSeq(text, 1, m)
  BY <1>2, <1>4, TookLetter
<1>6. t.value \o t.piece = SubSeq(headers[i].value, 1, m)
  BY <1>1, <1>2, <1>3, <1>5
<1> QED
  BY <1>3, <1>6 DEF InValue, ListsFirst

LEMMA ValueByteIs ==
    ASSUME NEW q \in ParserFields, NEW r \in Requests, NEW i \in DOMAIN r.headers,
           NEW m \in 1..Len(r.headers[i].value),
           Within(q, r), Collects(q, "value", m - 1), InValue(q, r.headers, i, m - 1),
           NEW u, u = Marked(q, "value", r.headers[i].value[m]),
           NEW t, t = [u EXCEPT !.state = "value"]
    PROVE  /\ t \in ParserFields
           /\ Within(t, r) /\ Collects(t, "value", m) /\ InValue(t, r.headers, i, m)
<1>1. /\ r.headers[i].value \in Text /\ r.headers[i].value[m] \in Letters /\ m \in Nat /\ m # 0
  BY HeaderIs, LengthIs
<1>2. q.marked = "value" \/ q.piece = <<>>
  BY DEF Collects, Rests
<1>3. Took(t, q, "value", r.headers[i].value[m])
  BY <1>1, <1>2, TakesByte
<1>4. InValue(t, r.headers, i, m)
  BY <1>1, <1>3, ValueGoesOn
<1> QED
  BY <1>1, <1>3, <1>4, TookStays

LEMMA EolByteIs ==
    ASSUME NEW q \in ParserFields, NEW r \in Requests, NEW i \in DOMAIN r.headers,
           NEW m, m = Len(r.headers[i].value),
           Within(q, r), Collects(q, "value", m), InValue(q, r.headers, i, m),
           NEW v, v = [q EXCEPT !.marked = "value"],
           NEW u, u = Unmarked(v),
           NEW t, t = [u EXCEPT !.state = "headers"]
    PROVE  /\ t \in ParserFields
           /\ Within(t, r) /\ Rests(t) /\ HoldsBack(t, r.headers, i)
<1>1. PICK text \in Text : text = r.headers[i].value
  BY HeaderIs
<1>2. SubSeq(text, 1, m) = text
  BY <1>1, AllOf
<1>3. /\ v \in ParserFields /\ v.marked = "value" /\ v.piece = q.piece
      /\ SameUrl(v, q) /\ SameHeaders(v, q) /\ SameBody(v, q)
  BY DEF ParserFields, SameUrl, SameHeaders, SameBody
<1>4. Delivered(u, v) /\ u.marked = "none"
  BY <1>3, UnmarkedIs
<1>5. u \in ParserFields /\ u.piece = <<>>
  BY <1>4 DEF Delivered
<1>6. /\ t \in ParserFields /\ t.state = "headers" /\ t.marked = "none" /\ t.piece = <<>>
      /\ SameUrl(t, u) /\ SameHeaders(t, u) /\ SameBody(t, u)
  BY <1>4, <1>5, WithStateIs
<1>7. SameUrl(t, q) /\ SameBody(t, q)
  BY <1>3, <1>4, <1>6 DEF Delivered, SameUrl, SameBody
<1>8. /\ t.building = 0 /\ t.headers = q.headers /\ t.field = q.field
      /\ t.value = u.value
  BY <1>3, <1>4, <1>6 DEF Delivered, SameHeaders
<1>9. t.value = text
  <2>1. q.value \o q.piece = text
    BY <1>1, <1>2 DEF InValue
  <2>2. q.building \in {0, 1} /\ q.value \in Text /\ q.piece \in Text
    BY DEF ParserFields
  <2>3. CASE q.building = 0
    BY <1>3, <1>4, <1>8, <2>1, <2>3 DEF Delivered, SameHeaders
  <2>4. CASE q.building = 1
    <3>1. q.value = <<>>
      BY <2>4 DEF InValue
    <3>2. q.value \o q.piece = q.piece
      BY <2>2, <3>1, JoinedTexts
    <3>3. u.value = q.piece
      BY <1>3, <1>4, <2>4 DEF Delivered, SameHeaders
    <3> QED
      BY <1>8, <2>1, <3>2, <3>3
  <2> QED
    BY <2>2, <2>3, <2>4
<1>10. i # 0 /\ HoldsBack(t, r.headers, i)
  <2>1. i # 0
    BY HeaderIs
  <2> QED
    BY <1>1, <1>8, <1>9, <2>1 DEF HoldsBack, ListsFirst, InValue
<1> QED
  BY <1>6, <1>7, <1>10, WithinStays DEF Rests

\* The request is complete but for its body.
LEMMA EndOfHeadersIs ==
    ASSUME NEW q \in ParserFields, NEW r \in Requests,
           Within(q, r), Rests(q), HoldsBack(q, r.headers, Len(r.headers)),
           NEW t, t = OnHeadersComplete(q, r.close)
    PROVE  /\ t \in ParserFields
           /\ ListsOnly(t.headers, r.headers, Kept(r.headers))
           /\ UrlRead(t, r) /\ NoBody(t)
           /\ t.state = "headers" /\ t.marked = "none" /\ t.piece = <<>>
           /\ t.field = <<>>
<1>1. PICK h : h = IF q.field # <<>> THEN WithHeader(q) ELSE q.headers
  OBVIOUS
<1>2. /\ r.headers \in Seq(Header) /\ r.close \in BOOLEAN
      /\ \A i \in DOMAIN r.headers : Len(r.headers[i].field) > 0
  BY RequestIs
<1>3. ListsOnly(h, r.headers, Kept(r.headers))
  BY <1>1, <1>2, LastListed
<1>4. h \in Seq(Header) /\ <<>> \in Text
  BY <1>1, WithHeaderIs DEF ParserFields, Text
<1>5. PICK a : a = [q EXCEPT !.headers = h]
  OBVIOUS
<1>6. /\ a \in ParserFields /\ a.headers = h /\ SameUrl(a, q) /\ SameBody(a, q)
      /\ a.state = q.state /\ a.marked = q.marked /\ a.piece = q.piece
  BY <1>4, <1>5 DEF ParserFields, SameUrl, SameBody
<1>7. PICK b : b = [a EXCEPT !.field = <<>>]
  OBVIOUS
<1>8. /\ b \in ParserFields /\ b.headers = h /\ SameUrl(b, q) /\ SameBody(b, q) /\ b.field = <<>>
      /\ b.state = q.state /\ b.marked = q.marked /\ b.piece = q.piece
  BY <1>4, <1>6, <1>7 DEF ParserFields, SameUrl, SameBody
<1>9. PICK c : c = [b EXCEPT !.value = <<>>]
  OBVIOUS
<1>10. /\ c \in ParserFields /\ c.headers = h /\ SameUrl(c, q) /\ SameBody(c, q) /\ c.field = <<>>
       /\ c.state = q.state /\ c.marked = q.marked /\ c.piece = q.piece
  BY <1>4, <1>8, <1>9 DEF ParserFields, SameUrl, SameBody
<1>11. t = [c EXCEPT !.close = r.close]
  BY <1>1, <1>5, <1>7, <1>9 DEF OnHeadersComplete
<1>12. /\ t \in ParserFields /\ t.headers = h /\ SameUrl(t, q) /\ SameBody(t, q) /\ t.field = <<>>
       /\ t.state = q.state /\ t.marked = q.marked /\ t.piece = q.piece
  BY <1>2, <1>10, <1>11, SMTT(30) DEF ParserFields, SameUrl, SameBody
<1>13. Within(t, r)
  BY <1>12, WithinStays
<1> QED
  BY <1>3, <1>12, <1>13 DEF Rests, Within

\* Bytes of the body are to come.
LEMMA BodyBegins ==
    ASSUME NEW q \in ParserFields, NEW r \in Requests,
           ListsOnly(q.headers, r.headers, Kept(r.headers)),
           UrlRead(q, r), NoBody(q), q.marked = "none", q.piece = <<>>,
           NEW t, t = [q EXCEPT !.state = "body", !.left = Len(r.body)]
    PROVE  t \in ParserFields /\ InBody(t, r, 0)
<1>1. Len(r.body) \in Nat /\ r.body \in Text
  BY RequestIs, LengthIs
<1>2. PICK a : a = [q EXCEPT !.state = "body"]
  OBVIOUS
<1>3. /\ a \in ParserFields /\ a.state = "body" /\ a.marked = q.marked /\ a.piece = q.piece
      /\ SameUrl(a, q) /\ SameHeaders(a, q) /\ SameBody(a, q)
  BY <1>2, WithStateIs
<1>4. t = [a EXCEPT !.left = Len(r.body)]
  BY <1>2
<1>5. /\ t \in ParserFields /\ t.state = "body" /\ t.marked = a.marked /\ t.piece = a.piece
      /\ SameUrl(t, a) /\ t.headers = a.headers /\ t.body = a.body /\ t.left = Len(r.body)
  <2>1. a \in ParserFields /\ a.state = "body"
    BY <1>3
  <2>2. PICK l \in Nat : l = Len(r.body)
    BY <1>1
  <2> QED
    BY <1>4, <2>1, <2>2 DEF ParserFields, SameUrl
<1>6. t.headers = q.headers /\ t.body = <<>> /\ t.piece = <<>> /\ t.marked = "none" /\ SameUrl(t, q)
  BY <1>3, <1>5 DEF SameUrl, SameHeaders, SameBody, NoBody
<1>7. t.body \o t.piece = SubSeq(r.body, 1, 0)
  <2>1. <<>> \in Text
    BY DEF Text
  <2>2. <<>> \o <<>> = <<>>
    BY <2>1, JoinedTexts
  <2> QED
    BY <1>6, <2>2, NoneOf
<1>8. UrlRead(t, r)
  BY <1>6 DEF UrlRead, Misplaced, SameUrl
<1>9. ListsOnly(t.headers, r.headers, Kept(r.headers))
  BY <1>6
<1>10. t.left = Len(r.body) - 0
  BY <1>1, <1>5
<1> QED
  BY <1>5, <1>6, <1>7, <1>8, <1>9, <1>10 DEF InBody

\* A byte of the body; with the last one the request is complete.
OneLess(q) == [q EXCEPT !.left = @ - 1]

LEMMA BodyByteIs ==
    ASSUME NEW q \in ParserFields, NEW r \in Requests, NEW m \in 1..Len(r.body),
           InBody(q, r, m - 1),
           NEW u, u = Marked(q, "body", r.body[m]),
           NEW t, t = OneLess(u)
    PROVE  /\ t \in ParserFields /\ t.marked = "body" /\ InBody(t, r, m)
           /\ t.left \in Nat /\ (t.left > 0 <=> m < Len(r.body))
<1>1. PICK text \in Text : text = r.body
  BY RequestIs
<1>2. PICK l \in Nat : l = m - 1
  OBVIOUS
<1>3. l + 1 = m /\ l < Len(text) /\ m \in 1..Len(text) /\ text[m] \in Letters /\ Len(text) \in Nat
  BY <1>1, <1>2, LengthIs
<1>4. q.marked = "body" \/ q.piece = <<>>
  BY DEF InBody
<1>5. /\ u \in ParserFields /\ u.marked = "body" /\ u.piece = Append(q.piece, text[m]) /\ u.state = q.state
      /\ SameUrl(u, q) /\ SameHeaders(u, q) /\ SameBody(u, q)
  BY <1>1, <1>3, <1>4, MarkedIs
<1>6. q.left = Len(text) - l
  BY <1>1, <1>2 DEF InBody
<1>7. PICK left \in Nat : left = u.left - 1 /\ left = Len(text) - m
  <2>1. u.left = Len(text) - l
    BY <1>5, <1>6 DEF SameBody
  <2>2. (Len(text) - l) - 1 = Len(text) - m /\ Len(text) - m \in Nat
    BY <1>3
  <2> QED
    BY <2>1, <2>2
<1>8. t = [u EXCEPT !.left = left]
  BY <1>7 DEF OneLess
<1>9. /\ t \in ParserFields /\ t.state = u.state /\ t.marked = u.marked /\ t.piece = u.piece
      /\ SameUrl(t, u) /\ t.headers = u.headers /\ t.body = u.body /\ t.left = left
  <2>1. u \in ParserFields
    BY <1>5
  <2> QED
    BY <1>8, <2>1 DEF ParserFields, SameUrl
<1>10. q.body \o Append(q.piece, text[m]) = SubSeq(text, 1, m)
  <2>1. q.body \in Text /\ q.piece \in Text
    BY DEF ParserFields
  <2>2. q.body \o q.piece = SubSeq(text, 1, l)
    BY <1>1, <1>2 DEF InBody
  <2> QED
    BY <1>3, <2>1, <2>2, TextGrows
<1>11. t.body \o t.piece = SubSeq(r.body, 1, m)
  BY <1>1, <1>5, <1>9, <1>10 DEF SameBody
<1>12. t.state = "body" /\ UrlRead(t, r) /\ t.headers = q.headers
  BY <1>5, <1>9 DEF InBody, UrlRead, Misplaced, SameUrl, SameHeaders
<1>13. ListsOnly(t.headers, r.headers, Kept(r.headers))
  BY <1>12 DEF InBody
<1>14. left > 0 <=> m < Len(text)
  BY <1>3, <1>7
<1> QED
  BY <1>1, <1>5, <1>7, <1>9, <1>11, <1>12, <1>13, <1>14 DEF InBody

LEMMA BodyComplete ==
    ASSUME NEW q \in ParserFields, NEW r \in Requests, InBody(q, r, Len(r.body)), q.marked = "body",
           NEW t, t = Unmarked(q)
    PROVE  /\ t \in ParserFields
           /\ ListsOnly(t.headers, r.headers, Kept(r.headers))
           /\ UrlRead(t, r) /\ t.body = r.body
<1>1. Delivered(t, q)
  BY UnmarkedIs
<1>2. q.body \o q.piece = r.body
  BY RequestIs, AllOf DEF InBody
<1>3. t \in ParserFields /\ t.body = r.body /\ t.headers = q.headers /\ SameUrl(t, q)
  BY <1>1, <1>2 DEF Delivered, SameHeaders
<1> QED
  BY <1>3 DEF InBody, UrlRead, Misplaced, SameUrl

\* t is q after its read ended.
Paused(t, q) ==
    /\ t \in ParserFields
    /\ t.piece = <<>> /\ t.state = q.state /\ t.marked = q.marked /\ t.left = q.left
    /\ t.cut <=> (q.cut \/ q.state = "url")
    /\ (t.behind <=> q.behind) /\ t.qs_point = q.qs_point
    /\ q.marked = "url" => t.raw_url = q.raw_url \o q.piece
    /\ q.marked # "url" => t.raw_url = q.raw_url /\ t.url = q.url
    /\ q.marked = "field" => t.building = 1
    /\ q.marked = "field" /\ q.building = 1 =>
         t.headers = q.headers /\ t.value = q.value /\ t.field = q.field \o q.piece
    /\ q.marked = "field" /\ q.building = 0 =>
         /\ t.headers = IF q.value # <<>> THEN WithHeader(q) ELSE q.headers
         /\ t.value = <<>> /\ t.field = q.piece
    /\ q.marked = "value" => t.building = 0 /\ t.headers = q.headers /\ t.field = q.field
    /\ q.marked = "value" /\ q.building = 0 => t.value = q.value \o q.piece
    /\ q.marked = "value" /\ q.building = 1 => t.value = q.piece
    /\ q.marked \notin {"field", "value"} => SameHeaders(t, q)
    /\ q.marked = "body" => t.body = q.body \o q.piece
    /\ q.marked # "body" => t.body = q.body

LEMMA ReadEndedIs ==
    ASSUME NEW q \in ParserFields, NEW t, t = ReadEnded(q)
    PROVE  Paused(t, q)
<1>1. PICK cut \in BOOLEAN : cut = (q.cut \/ q.state = "url")
  OBVIOUS
<1>2. PICK d : d = [q EXCEPT !.cut = cut]
  OBVIOUS
<1>3. /\ d \in ParserFields /\ d.state = q.state /\ d.marked = q.marked /\ d.piece = q.piece
      /\ (d.cut <=> cut) /\ d.raw_url = q.raw_url /\ d.url = q.url
      /\ (d.behind <=> q.behind) /\ d.qs_point = q.qs_point
      /\ SameHeaders(d, q) /\ SameBody(d, q)
  BY <1>2 DEF ParserFields, SameHeaders, SameBody
<1>4. t = Deliver(d)
  BY <1>1, <1>2 DEF ReadEnded
<1>5. Delivered(t, d) /\ t.marked = d.marked
  BY <1>3, <1>4, DeliverIs, MarkStays
<1>8. t \in ParserFields
  BY <1>5 DEF Delivered
<1>9. WithHeader(d) = WithHeader(q)
  BY <1>3 DEF WithHeader, SameHeaders
<1>10. /\ t.piece = <<>> /\ t.state = q.state /\ t.marked = q.marked /\ t.left = q.left
       /\ t.cut <=> (q.cut \/ q.state = "url")
       /\ (t.behind <=> q.behind) /\ t.qs_point = q.qs_point
  BY <1>1, <1>3, <1>5 DEF Delivered, SameBody
<1>11. /\ q.marked = "url" => t.raw_url = q.raw_url \o q.piece
       /\ q.marked # "url" => t.raw_url = q.raw_url /\ t.url = q.url
  BY <1>3, <1>5 DEF Delivered, SameUrl
<1>12. /\ q.marked = "body" => t.body = q.body \o q.piece
       /\ q.marked # "body" => t.body = q.body
  BY <1>3, <1>5 DEF Delivered, SameBody
<1>13. /\ q.marked = "field" => t.building = 1
       /\ q.marked = "field" /\ q.building = 1 =>
            t.headers = q.headers /\ t.value = q.value /\ t.field = q.field \o q.piece
       /\ q.marked = "field" /\ q.building = 0 =>
            /\ t.headers = IF q.value # <<>> THEN WithHeader(q) ELSE q.headers
            /\ t.value = <<>> /\ t.field = q.piece
  BY <1>3, <1>5, <1>9 DEF Delivered, SameHeaders
<1>14. /\ q.marked = "value" => t.building = 0 /\ t.headers = q.headers /\ t.field = q.field
       /\ q.marked = "value" /\ q.building = 0 => t.value = q.value \o q.piece
       /\ q.marked = "value" /\ q.building = 1 => t.value = q.piece
       /\ q.marked \notin {"field", "value"} => SameHeaders(t, q)
  BY <1>3, <1>5 DEF Delivered, SameHeaders
<1> QED
  BY <1>8, <1>10, <1>11, <1>12, <1>13, <1>14 DEF Paused

\* A field that is set to what it was.
LEMMA SetAsBefore ==
    ASSUME NEW q \in ParserFields
    PROVE  /\ q.cut = FALSE => [q EXCEPT !.cut = FALSE] = q
           /\ q.piece = <<>> => [q EXCEPT !.piece = <<>>] = q
<1>1. q.cut = FALSE => [q EXCEPT !.cut = FALSE] = q
  BY DEF ParserFields
<1>3. q.piece = <<>> => [q EXCEPT !.piece = <<>>] = q
  BY DEF ParserFields
<1> QED
  BY <1>1, <1>3

LEMMA StartPaused == ASSUME NEW t, t = ReadEnded(Cleared) PROVE t = Cleared
<1>1. PICK q \in ParserFields : q = Cleared
  BY ClearedIs
<1>2. /\ q.cut = FALSE /\ q.piece = <<>>
      /\ q.marked = "none" /\ q.state = "start"
  BY <1>1 DEF Cleared
<1>3. PICK cut : cut = (q.cut \/ q.state = "url")
  OBVIOUS
<1>4. cut = FALSE
  BY <1>2, <1>3
<1>5. [q EXCEPT !.cut = cut] = q
  BY <1>2, <1>4, SetAsBefore
<1>6. Deliver(q) = q
  BY <1>2, SetAsBefore DEF Deliver
<1>7. t = Deliver([q EXCEPT !.cut = cut])
  BY <1>1, <1>3 DEF ReadEnded
<1> QED
  BY <1>1, <1>5, <1>6, <1>7

LEMMA UrlPaused ==
    ASSUME NEW q \in ParserFields, NEW r, NEW m, InUrl(q, r, m), NEW t, Paused(t, q)
    PROVE  InUrl(t, r, m)
<1>1. q.raw_url \in Text /\ q.piece \in Text
  BY DEF ParserFields
<1>2. /\ t.state = "url" /\ t.marked = "url" /\ t.cut
      /\ t.raw_url = q.raw_url \o q.piece /\ t.piece = <<>> /\ t.qs_point = q.qs_point
      /\ SameHeaders(t, q) /\ SameBody(t, q)
  BY DEF Paused, InUrl, SameBody
<1>3. t.raw_url \o t.piece = q.raw_url \o q.piece
  BY <1>1, <1>2, JoinedTexts
<1> QED
  BY <1>2, <1>3 DEF InUrl, NoHeaders, NoBody, SameHeaders, SameBody

\* Behind the URL a read may end anywhere.
LEMMA WithinPaused ==
    ASSUME NEW q, NEW r, Within(q, r), q.state # "url", q.marked \in {"none", "field", "value"},
           NEW t, Paused(t, q)
    PROVE  Within(t, r)
  BY DEF Within, UrlRead, Misplaced, NoBody, Paused

LEMMA RestPaused ==
    ASSUME NEW q, Rests(q), NEW t, Paused(t, q)
    PROVE  Rests(t) /\ SameHeaders(t, q)
  BY DEF Rests, Paused

LEMMA FieldPaused ==
    ASSUME NEW q \in ParserFields, NEW r \in Requests, NEW i \in DOMAIN r.headers,
           NEW m \in 0..Len(r.headers[i].field),
           Within(q, r), Collects(q, "field", m), InField(q, r.headers, i, m),
           NEW t, Paused(t, q)
    PROVE  Within(t, r) /\ Collects(t, "field", m) /\ InField(t, r.headers, i, m)
<1>1. Within(t, r) /\ Collects(t, "field", m)
  BY WithinPaused, RestPaused DEF Collects, Rests, Paused
<1>2. CASE m = 0
  <2>1. Rests(q) /\ Rests(t) /\ SameHeaders(t, q)
    BY <1>2, RestPaused DEF Collects
  <2>2. InField(t, r.headers, i, m)
    BY <2>1 DEF InField, HoldsBack, ListsFirst, NoHeaders, SameHeaders, Rests
  <2> QED
    BY <1>1, <2>2
<1>3. CASE m # 0
  <2>1. q.marked = "field" /\ t.building = 1 /\ t.piece = <<>>
    BY <1>3 DEF Collects, Paused
  <2>2. q.field \in Text /\ q.piece \in Text /\ i - 1 \in 0..Len(r.headers) /\ r.headers \in Seq(Header)
    BY HeaderIs DEF ParserFields
  <2>3. CASE HoldsBack(q, r.headers, i - 1) /\ q.piece = SubSeq(r.headers[i].field, 1, m)
    <3>1. q.building = 0
      BY <2>3 DEF HoldsBack
    <3>2. /\ t.headers = IF q.value # <<>> THEN WithHeader(q) ELSE q.headers
          /\ t.value = <<>> /\ t.field = q.piece
      BY <2>1, <3>1 DEF Paused
    <3>3. ListsOnly(t.headers, r.headers, WithValue(r.headers, i - 1))
      BY <2>2, <2>3, <3>2, HeldBackListed
    <3>4. t.field \o t.piece = q.piece
      BY <2>1, <2>2, <3>2, JoinedTexts
    <3> QED
      BY <1>1, <2>1, <2>3, <3>2, <3>3, <3>4 DEF InField, ListsFirst
  <2>4. CASE /\ q.building = 1 /\ q.value = <<>>
             /\ ListsFirst(q, r.headers, i - 1)
             /\ q.field \o q.piece = SubSeq(r.headers[i].field, 1, m)
    <3>1. t.headers = q.headers /\ t.value = q.value /\ t.field = q.field \o q.piece
      BY <2>1, <2>4 DEF Paused
    <3>2. t.field \o t.piece = q.field \o q.piece
      BY <2>1, <2>2, <3>1, JoinedTexts
    <3> QED
      BY <1>1, <2>1, <2>4, <3>1, <3>2 DEF InField, ListsFirst
  <2> QED
    BY <2>3, <2>4 DEF InField
<1> QED
  BY <1>2, <1>3

LEMMA ValuePaused ==
    ASSUME NEW q \in ParserFields, NEW r \in Requests, NEW i \in DOMAIN r.headers,
           NEW m \in 0..Len(r.headers[i].value),
           Within(q, r), Collects(q, "value", m), InValue(q, r.headers, i, m),
           NEW t, Paused(t, q)
    PROVE  Within(t, r) /\ Collects(t, "value", m) /\ InValue(t, r.headers, i, m)
<1>1. Within(t, r) /\ Collects(t, "value", m)
  BY WithinPaused, RestPaused DEF Collects, Rests, Paused
<1>2. CASE m = 0
  <2>1. Rests(q) /\ Rests(t) /\ SameHeaders(t, q)
    BY <1>2, RestPaused DEF Collects
  <2>2. InValue(t, r.headers, i, m)
    BY <2>1 DEF InValue, ListsFirst, SameHeaders, Rests
  <2> QED
    BY <1>1, <2>2
<1>3. CASE m # 0
  <2>1. q.marked = "value" /\ t.building = 0 /\ t.piece = <<>> /\ t.headers = q.headers /\ t.field = q.field
    BY <1>3 DEF Collects, Paused
  <2>2. q.value \in Text /\ q.piece \in Text /\ q.building \in {0, 1}
    BY DEF ParserFields
  <2>3. t.value = q.value \o q.piece
    <3>1. q.building = 1 => q.value = <<>>
      BY DEF InValue
    <3> QED
      BY <2>1, <2>2, <3>1, JoinedTexts DEF Paused
  <2>4. t.value \o t.piece = q.value \o q.piece
    BY <2>1, <2>2, <2>3, JoinedTexts
  <2> QED
    BY <1>1, <2>1, <2>4 DEF InValue, ListsFirst
<1> QED
  BY <1>2, <1>3

LEMMA BodyPaused ==
    ASSUME NEW q \in ParserFields, NEW r \in Requests, NEW m, InBody(q, r, m),
           NEW t, Paused(t, q)
    PROVE  InBody(t, r, m)
<1>1. q.state = "body" /\ q.marked \in {"none", "body"}
  BY DEF InBody
<1>2. t.state = "body" /\ t.left = q.left /\ t.marked = q.marked /\ t.piece = <<>> /\ t.headers = q.headers
  BY <1>1 DEF Paused, SameHeaders
<1>3. UrlRead(t, r)
  BY <1>1 DEF InBody, UrlRead, Misplaced, Paused
<1>4. t.body \o t.piece = q.body \o q.piece
  <2>1. q.body \in Text /\ q.piece \in Text
    BY DEF ParserFields
  <2>2. CASE q.marked = "none"
    <3>1. q.piece = <<>> /\ t.body = q.body
      BY <2>2 DEF InBody, Paused
    <3> QED
      BY <1>2, <3>1
  <2>3. CASE q.marked = "body"
    <3>1. t.body = q.body \o q.piece
      BY <2>3 DEF Paused
    <3> QED
      BY <1>2, <2>1, <3>1, JoinedTexts
  <2> QED
    BY <1>1, <2>2, <2>3
<1> QED
  BY <1>1, <1>2, <1>3, <1>4 DEF InBody

-----------------------------------------------------------------------------
(* The connection *)

\* The parser at each kind of byte.
AtStart(q, c) == c = FirstOf(c.req) /\ q = Cleared
AtUrl(q, c, r) ==
    c.part = "url" /\ c.k \in 2..Len(Target(r)) /\ InUrl(q, r, c.k - 1)
AtVersion(q, c, r) == c.part = "version" /\ InUrl(q, r, Len(Target(r)))
AtField(q, c, r) ==
    /\ c.part = "field" /\ c.header \in DOMAIN r.headers
    /\ c.k \in 1..Len(r.headers[c.header].field)
    /\ Within(q, r)
    /\ Collects(q, "field", c.k - 1) /\ InField(q, r.headers, c.header, c.k - 1)
AtColon(q, c, r) ==
    /\ c.part = "colon" /\ c.header \in DOMAIN r.headers /\ c.k = 1
    /\ Within(q, r)
    /\ Collects(q, "field", Len(r.headers[c.header].field))
    /\ InField(q, r.headers, c.header, Len(r.headers[c.header].field))
AtValue(q, c, r) ==
    /\ c.part = "value" /\ c.header \in DOMAIN r.headers
    /\ c.k \in 1..Len(r.headers[c.header].value)
    /\ Within(q, r)
    /\ Collects(q, "value", c.k - 1) /\ InValue(q, r.headers, c.header, c.k - 1)
AtEol(q, c, r) ==
    /\ c.part = "eol" /\ c.header \in DOMAIN r.headers
    /\ Within(q, r)
    /\ Collects(q, "value", Len(r.headers[c.header].value))
    /\ InValue(q, r.headers, c.header, Len(r.headers[c.header].value))
AtEnd(q, c, r) ==
    c.part = "end" /\ Within(q, r) /\ Rests(q) /\ HoldsBack(q, r.headers, Len(r.headers))
AtBody(q, c, r) ==
    c.part = "body" /\ c.k \in 1..Len(r.body) /\ InBody(q, r, c.k - 1)

Parsed(q, c, r) ==
    \/ AtStart(q, c) \/ AtUrl(q, c, r) \/ AtVersion(q, c, r)
    \/ AtField(q, c, r) \/ AtColon(q, c, r) \/ AtValue(q, c, r) \/ AtEol(q, c, r)
    \/ AtEnd(q, c, r) \/ AtBody(q, c, r)

\* All requests before the one under way have their answers, and that one is parsed
\* as far as it was sent.
InStep ==
    /\ cursor.req = Len(answers) + 1
    /\ cursor.req <= Len(requests) => Parsed(parser, cursor, requests[cursor.req])
    /\ cursor.req > Len(requests) => AtStart(parser, cursor)

ParserInv ==
    /\ ParserTypeOK
    /\ Len(answers) <= Len(requests)
    /\ \A k \in DOMAIN answers : AnsweredRight(answers[k], requests[k])
    /\ conn \in {"open", "shut"} => InStep /\ MarkFits(url_start_mark, parser)

LEMMA ParsedState ==
    ASSUME NEW q \in ParserFields, NEW c, NEW r \in Requests, Parsed(q, c, r)
    PROVE  /\ q.state = "body" <=> q.left > 0
           /\ q.state = "start" => AtStart(q, c)
           /\ q.state = "url" => AtUrl(q, c, r) \/ AtVersion(q, c, r)
<1>1. CASE AtStart(q, c)
  BY <1>1 DEF AtStart, Cleared
<1>2. CASE AtUrl(q, c, r) \/ AtVersion(q, c, r)
  <2>1. q.state = "url" /\ q.left = 0
    BY <1>2 DEF AtUrl, AtVersion, InUrl, NoBody
  <2> QED
    BY <1>2, <2>1
<1>3. CASE AtField(q, c, r) \/ AtColon(q, c, r) \/ AtValue(q, c, r) \/ AtEol(q, c, r) \/ AtEnd(q, c, r)
  <2>1. q.left = 0 /\ q.state \in {"headers", "field", "value"}
    BY <1>3 DEF AtField, AtColon, AtValue, AtEol, AtEnd, Within, NoBody, Collects, Rests
  <2> QED
    BY <2>1
<1>4. CASE AtBody(q, c, r)
  <2>1. c.k \in 1..Len(r.body) /\ q.state = "body" /\ q.left = Len(r.body) - (c.k - 1)
    BY <1>4 DEF AtBody, InBody
  <2>2. PICK l \in Nat, k \in Nat : l = Len(r.body) /\ k = c.k /\ k \in 1..l
    BY <2>1, RequestIs, LengthIs
  <2>3. l - (k - 1) > 0
    BY <2>2
  <2> QED
    BY <2>1, <2>2, <2>3
<1> QED
  BY <1>1, <1>2, <1>3, <1>4 DEF Parsed

Parts == {"url", "version", "field", "colon", "value", "eol", "end", "body"}

LEMMA PlaceIs ==
    ASSUME NEW n \in Nat, NEW part \in Parts, NEW i \in Nat, NEW k \in Nat,
           NEW c, c = Place(n, part, i, k)
    PROVE  c \in CursorFields /\ c.req = n /\ c.part = part /\ c.header = i /\ c.k = k
  BY DEF Place, CursorFields, Parts

LEMMA FurtherIs ==
    ASSUME cursor \in CursorFields, NEW text \in Text, cursor.k \in 1..Len(text),
           NEW behind, NEW c, c = Further(text, behind)
    PROVE  \/ /\ cursor.k < Len(text)
              /\ c \in CursorFields /\ c.req = cursor.req /\ c.part = cursor.part
              /\ c.header = cursor.header /\ c.k = cursor.k + 1
              /\ c.k \in 1..Len(text) /\ c.k - 1 = cursor.k /\ c.k # 1
           \/ /\ cursor.k = Len(text)
              /\ c = behind
<1>1. PICK l \in Nat, k \in Nat : l = Len(text) /\ k = cursor.k /\ k \in 1..l
  BY LengthIs
<1>2. CASE k < l
  <2>1. c = [cursor EXCEPT !.k = k + 1]
    BY <1>1, <1>2 DEF Further
  <2>2. k + 1 \in 1..l /\ (k + 1) - 1 = k /\ k + 1 # 1
    BY <1>1, <1>2
  <2> QED
    BY <1>1, <1>2, <2>1, <2>2 DEF CursorFields
<1>3. CASE k = l
  BY <1>1, <1>3 DEF Further
<1> QED
  BY <1>1, <1>2, <1>3

\* The request under way.
LEMMA CurrentIs ==
    ASSUME ParserInv, conn \in {"open", "shut"}, cursor.req <= Len(requests)
    PROVE  /\ Current \in Requests /\ Current = requests[cursor.req]
           /\ cursor \in CursorFields /\ cursor.req \in Nat /\ cursor.req \in 1..Len(requests)
           /\ parser \in ParserFields
           /\ Parsed(parser, cursor, Current)
<1>1. /\ requests \in Seq(Requests) /\ cursor \in CursorFields /\ cursor.req \in 1..Len(requests) + 1
      /\ parser \in ParserFields
      /\ InStep
  BY DEF ParserInv, ParserTypeOK
<1>2. cursor.req \in 1..Len(requests)
  BY <1>1
<1> QED
  BY <1>1, <1>2 DEF InStep, Current

\* A byte that answers nothing.
LEMMA GoesOnStep ==
    ASSUME ParserInv, conn \in {"open", "shut"}, cursor.req <= Len(requests),
           requests' = requests, inRead' \in BOOLEAN /\ url_start_mark' \in Nat,
           NEW q \in ParserFields, GoesOn(q), MarkFits(url_start_mark', q),
           cursor' \in CursorFields, cursor'.req = cursor.req,
           Parsed(q, cursor', Current)
    PROVE  ParserInv'
<1>1. parser' = q /\ conn' = conn /\ closing' = closing /\ answers' = answers
  BY DEF GoesOn
<1>2. Current \in Requests /\ Current = requests[cursor.req]
  BY CurrentIs
<1>3. q.state = "body" <=> q.left > 0
  BY <1>2, ParsedState
<1>4. ParserTypeOK'
  BY <1>1, <1>3 DEF ParserInv, ParserTypeOK
<1>5. InStep'
  <2>1. InStep
    BY DEF ParserInv
  <2>2. cursor'.req = Len(answers') + 1
    BY <1>1, <2>1 DEF InStep
  <2>3. Parsed(parser', cursor', requests'[cursor'.req])
    BY <1>1, <1>2
  <2>4. ~(cursor'.req > Len(requests'))
    <3>1. Len(requests) \in Nat /\ cursor.req \in Nat
      BY DEF ParserInv, ParserTypeOK
    <3> QED
      BY <3>1
  <2> QED
    BY <2>2, <2>3, <2>4 DEF InStep
<1>6. MarkFits(url_start_mark', parser')
  BY <1>1
<1> QED
  BY <1>1, <1>4, <1>5, <1>6 DEF ParserInv

\* One more answer.
LEMMA AnswerIs ==
    ASSUME NEW kind \in {"handled", "notFound"}, NEW q \in ParserFields
    PROVE  /\ AnswerFor(kind, q) \in AnswerFields
           /\ AnswerFor(kind, q).kind = kind
           /\ AnswerFor(kind, q).url = q.url /\ AnswerFor(kind, q).raw_url = q.raw_url
           /\ AnswerFor(kind, q).headers = q.headers /\ AnswerFor(kind, q).body = q.body
           /\ (AnswerFor(kind, q).cut <=> q.cut) /\ (AnswerFor(kind, q).behind <=> q.behind)
  BY DEF AnswerFor, AnswerFields, ParserFields

LEMMA AnswerAdded ==
    ASSUME ParserInv, conn \in {"open", "shut"}, cursor.req <= Len(requests),
           requests' = requests,
           NEW a \in AnswerFields, AnsweredRight(a, Current), answers' = Append(answers, a)
    PROVE  /\ answers' \in Seq(AnswerFields)
           /\ Len(answers') = cursor.req /\ Len(answers') <= Len(requests')
           /\ \A k \in DOMAIN answers' : AnsweredRight(answers'[k], requests'[k])
<1>1. answers \in Seq(AnswerFields) /\ cursor.req = Len(answers) + 1 /\ Current = requests[cursor.req]
  BY CurrentIs DEF ParserInv, ParserTypeOK, InStep
<1>2. PICK n \in Nat : n = Len(answers) /\ DOMAIN answers = 1..n
  BY <1>1
<1>3. /\ answers' \in Seq(AnswerFields) /\ Len(answers') = n + 1 /\ DOMAIN answers' = 1..n + 1
      /\ answers'[n + 1] = a
      /\ \A k \in 1..n : answers'[k] = answers[k]
  BY <1>1, <1>2
<1>4. \A k \in 1..n : AnsweredRight(answers[k], requests[k])
  BY <1>2 DEF ParserInv
<1>5. ASSUME NEW k \in 1..n + 1 PROVE AnsweredRight(answers'[k], requests'[k])
  <2>1. CASE k = n + 1
    BY <1>1, <1>2, <1>3, <2>1
  <2>2. CASE k # n + 1
    <3>1. k \in 1..n
      BY <2>2
    <3> QED
      BY <1>3, <1>4, <3>1
  <2> QED
    BY <2>1, <2>2
<1> QED
  BY <1>1, <1>2, <1>3, <1>5

LEMMA FirstIs ==
    ASSUME NEW n \in Nat
    PROVE  FirstOf(n) \in CursorFields /\ FirstOf(n).req = n /\ AtStart(Cleared, FirstOf(n))
<1>1. FirstOf(n) \in CursorFields /\ FirstOf(n).req = n
  BY PlaceIs DEF FirstOf, Parts
<1> QED
  BY <1>1 DEF AtStart

\* The last byte of a request.
LEMMA HandleStep ==
    ASSUME ParserInv, conn \in {"open", "shut"}, cursor.req <= Len(requests),
           requests' = requests, inRead' \in BOOLEAN /\ url_start_mark' \in Nat,
           NEW q \in ParserFields, Handle(q),
           ListsOnly(q.headers, Current.headers, Kept(Current.headers)),
           UrlRead(q, Current), q.body = Current.body,
           cursor' = FirstOf(cursor.req + 1)
    PROVE  ParserInv'
<1>1. /\ Current \in Requests /\ cursor.req \in Nat /\ cursor.req \in 1..Len(requests)
      /\ Len(requests) \in Nat
  BY CurrentIs DEF ParserInv, ParserTypeOK
<1>2. PICK n \in Nat : n = cursor.req /\ n + 1 \in Nat /\ n + 1 \in 1..Len(requests) + 1
  BY <1>1
<1>3. /\ cursor' \in CursorFields /\ cursor'.req = n + 1 /\ cursor'.req \in 1..Len(requests') + 1
      /\ AtStart(Cleared, cursor')
  BY <1>2, FirstIs
<1>4. CASE conn = "shut"
  <2>1. conn' = "threw" /\ parser' = q /\ closing' = closing /\ answers' = answers
    BY <1>4 DEF Handle
  <2>2. ParserTypeOK'
    BY <1>3, <2>1 DEF ParserInv, ParserTypeOK
  <2> QED
    BY <2>1, <2>2 DEF ParserInv
<1>5. CASE conn = "open"
  <2>1. /\ answers' = Append(answers, AnswerFor("handled", q))
        /\ closing' = q.close /\ conn' \in {"open", "shut"} /\ parser' = Cleared
    BY <1>5 DEF Handle
  <2>2. AnsweredRight(AnswerFor("handled", q), Current)
    BY AnswerIs DEF AnsweredRight, AsSent, UrlRead, Misplaced
  <2>3. /\ answers' \in Seq(AnswerFields)
        /\ Len(answers') = n /\ Len(answers') <= Len(requests')
        /\ \A k \in DOMAIN answers' : AnsweredRight(answers'[k], requests'[k])
    BY <1>2, <2>1, <2>2, AnswerIs, AnswerAdded
  <2>4. closing' \in BOOLEAN
    BY <2>1 DEF ParserFields
  <2>5. ParserTypeOK'
    BY <1>3, <2>1, <2>3, <2>4, ClearedIs DEF ParserInv, ParserTypeOK, Cleared
  <2>6. InStep'
    BY <1>2, <1>3, <2>1, <2>3 DEF InStep, Parsed
  <2> QED
    <3>1. MarkFits(url_start_mark', parser')
      BY <2>1 DEF MarkFits, Cleared
    <3> QED
      BY <2>3, <2>5, <2>6, <3>1 DEF ParserInv
<1> QED
  BY <1>4, <1>5

\* A URL without route ends the connection.
LEMMA RefuseStep ==
    ASSUME ParserInv, conn \in {"open", "shut"}, cursor.req <= Len(requests),
           requests' = requests, inRead' \in BOOLEAN /\ url_start_mark' \in Nat,
           NEW q \in ParserFields, Refuse(q),
           q.cut \/ Misplaced(q, Current) \/ ~HasRoute(Current.path),
           cursor' \in CursorFields, cursor'.req = cursor.req
    PROVE  ParserInv'
<1>1. conn' = "closed" /\ parser' = Cleared /\ closing' = closing
  BY DEF Refuse
<1>2. Cleared.state # "body" /\ Cleared.left = 0 /\ Cleared \in ParserFields
  BY ClearedIs DEF Cleared
<1>3. CASE conn = "shut"
  <2>1. answers' = answers
    BY <1>3 DEF Refuse
  <2>2. ParserTypeOK'
    BY <1>1, <1>2, <2>1 DEF ParserInv, ParserTypeOK
  <2> QED
    BY <1>1, <2>1, <2>2 DEF ParserInv
<1>4. CASE conn = "open"
  <2>1. answers' = Append(answers, AnswerFor("notFound", q))
    BY <1>4 DEF Refuse
  <2>2. AnsweredRight(AnswerFor("notFound", q), Current)
    BY AnswerIs DEF AnsweredRight, Misplaced
  <2>3. /\ answers' \in Seq(AnswerFields)
        /\ Len(answers') <= Len(requests')
        /\ \A k \in DOMAIN answers' : AnsweredRight(answers'[k], requests'[k])
    BY <2>1, <2>2, AnswerIs, AnswerAdded
  <2>4. ParserTypeOK'
    BY <1>1, <1>2, <2>3 DEF ParserInv, ParserTypeOK
  <2> QED
    BY <1>1, <2>3, <2>4 DEF ParserInv
<1> QED
  BY <1>3, <1>4

LEMMA PlacesAre ==
    \A n, i \in Nat : \A part \in {"version", "field", "colon", "eol", "end", "body"} :
        /\ Place(n, part, i, 1) \in CursorFields
        /\ Place(n, part, i, 1).req = n /\ Place(n, part, i, 1).part = part
        /\ Place(n, part, i, 1).header = i /\ Place(n, part, i, 1).k = 1
  BY DEF Place, CursorFields

\* What each kind of byte begins with.
LEMMA SendsIs ==
    ASSUME ParserInv, NEW part, Sends(part)
    PROVE  /\ conn \in {"open", "shut"} /\ cursor.req <= Len(requests)
           /\ requests' = requests /\ inRead' \in BOOLEAN /\ url_start_mark' \in Nat
           /\ cursor.part = part
           /\ cursor \in CursorFields /\ cursor.req \in Nat /\ cursor.header \in Nat
           /\ parser \in ParserFields
           /\ Current \in Requests /\ Current = requests[cursor.req]
           /\ Parsed(parser, cursor, Current)
           /\ url_start_mark \in Nat /\ MarkFits(url_start_mark, parser)
<1>1. conn \in {"open", "shut"} /\ cursor.req <= Len(requests)
  BY DEF Sends
<1>2. cursor \in CursorFields /\ cursor.header \in Nat
  BY <1>1, CurrentIs DEF CursorFields
<1>3. url_start_mark \in Nat /\ MarkFits(url_start_mark, parser)
  BY <1>1 DEF ParserInv, ParserTypeOK
<1>4. requests' = requests /\ inRead' \in BOOLEAN /\ url_start_mark' \in Nat
  BY <1>3 DEF Sends
<1> QED
  BY <1>1, <1>2, <1>3, <1>4, CurrentIs DEF Sends

LEMMA StartsAtUrl == ASSUME NEW q, NEW c, AtStart(q, c) PROVE c.part = "url" /\ c.k = 1
  BY DEF AtStart, FirstOf, Place

\* The header that comes next, or the end of the headers.
LEMMA HeaderBegins ==
    ASSUME NEW n \in Nat, NEW r \in Requests, r = requests[n], NEW i \in Nat, i <= Len(r.headers),
           NEW q \in ParserFields, Within(q, r), Rests(q), HoldsBack(q, r.headers, i),
           NEW c, c = HeaderAt(n, i + 1)
    PROVE  c \in CursorFields /\ c.req = n /\ Parsed(q, c, r)
<1>1. Len(r.headers) \in Nat /\ i + 1 \in Nat /\ i + 1 # 0 /\ (i + 1) - 1 = i
  BY RequestIs
<1>2. CASE i + 1 <= Len(r.headers)
  <2>1. c = Place(n, "field", i + 1, 1)
    BY <1>2 DEF HeaderAt
  <2>2. c \in CursorFields /\ c.req = n /\ c.part = "field" /\ c.header = i + 1 /\ c.k = 1
    BY <1>1, <2>1, PlacesAre
  <2>3. i + 1 \in DOMAIN r.headers
    <3>1. DOMAIN r.headers = 1..Len(r.headers)
      BY RequestIs
    <3> QED
      BY <1>1, <1>2, <3>1
  <2>4. 1 \in 1..Len(r.headers[i + 1].field)
    BY <2>3, HeaderIs
  <2>5. Collects(q, "field", 1 - 1)
    BY DEF Collects
  <2>6. q.piece = SubSeq(r.headers[i + 1].field, 1, 1 - 1)
    <3>1. SubSeq(r.headers[i + 1].field, 1, 0) = <<>>
      BY NoneOf
    <3> QED
      BY <3>1 DEF Rests
  <2>7. InField(q, r.headers, i + 1, 1 - 1)
    BY <1>1, <2>6 DEF InField
  <2> QED
    BY <2>2, <2>3, <2>4, <2>5, <2>7 DEF Parsed, AtField
<1>3. CASE ~(i + 1 <= Len(r.headers))
  <2>1. c = Place(n, "end", 0, 1)
    BY <1>3 DEF HeaderAt
  <2>2. c \in CursorFields /\ c.req = n /\ c.part = "end"
    BY <2>1, PlacesAre
  <2>3. i = Len(r.headers)
    BY <1>1, <1>3
  <2> QED
    BY <2>2, <2>3 DEF Parsed, AtEnd
<1> QED
  BY <1>2, <1>3

LEMMA UrlByteStep == ASSUME ParserInv, UrlByte PROVE ParserInv'
<1>1. Sends("url") /\ cursor' = Further(Target(Current), Place(cursor.req, "version", 0, 1))
  BY DEF UrlByte
<1>2. PICK q : q = WithUrlByte(parser, Target(Current)[cursor.k]) /\ GoesOn(q)
  BY DEF UrlByte
<1>3. /\ conn \in {"open", "shut"} /\ cursor.req <= Len(requests) /\ cursor.part = "url"
      /\ requests' = requests /\ inRead' \in BOOLEAN /\ url_start_mark' \in Nat
      /\ cursor \in CursorFields /\ cursor.req \in Nat
      /\ parser \in ParserFields /\ Current \in Requests
      /\ Parsed(parser, cursor, Current)
      /\ url_start_mark \in Nat /\ MarkFits(url_start_mark, parser)
  BY <1>1, SendsIs
<1>4. PICK text \in Text : text = Target(Current) /\ Len(text) \in Nat /\ 1 \in 1..Len(text)
  <2>1. Target(Current) \in Text /\ Len(Current.path) > 0 /\ Len(Current.path) <= Len(Target(Current))
    BY <1>3, RequestIs
  <2>2. Len(Target(Current)) \in Nat /\ Len(Current.path) \in Nat
    BY <1>3, <2>1, RequestIs, LengthIs
  <2> QED
    BY <2>1, <2>2
<1>5. /\ cursor.k \in 1..Len(text)
      /\ \/ cursor.k = 1 /\ parser = Cleared
         \/ cursor.k # 1 /\ InUrl(parser, Current, cursor.k - 1)
  <2>1. AtStart(parser, cursor) \/ AtUrl(parser, cursor, Current)
    BY <1>3 DEF Parsed, AtVersion, AtField, AtColon, AtValue, AtEol, AtEnd, AtBody
  <2>2. CASE AtStart(parser, cursor)
    BY <1>4, <2>2, StartsAtUrl DEF AtStart
  <2>3. CASE AtUrl(parser, cursor, Current)
    <3>1. cursor.k \in 2..Len(text) /\ InUrl(parser, Current, cursor.k - 1)
      BY <1>4, <2>3 DEF AtUrl
    <3>2. cursor.k \in 1..Len(text) /\ cursor.k # 1
      BY <1>4, <3>1
    <3> QED
      BY <3>1, <3>2
  <2> QED
    BY <2>1, <2>2, <2>3
<1>6. q \in ParserFields /\ InUrl(q, Current, cursor.k) /\ MarkFits(url_start_mark', q)
  <2>1. url_start_mark' = IF url_start_mark # 0 \/ parser.state = "start" THEN url_start_mark + 1 ELSE 0
    BY <1>1 DEF Sends
  <2> QED
    BY <1>2, <1>3, <1>4, <1>5, <2>1, UrlByteIs
<1>7. CASE /\ cursor' \in CursorFields /\ cursor'.req = cursor.req /\ cursor'.part = cursor.part
           /\ cursor'.k \in 1..Len(text) /\ cursor'.k - 1 = cursor.k /\ cursor'.k # 1
  <2>1. cursor'.k \in 2..Len(text)
    BY <1>4, <1>7
  <2>2. Parsed(q, cursor', Current)
    BY <1>3, <1>4, <1>6, <1>7, <2>1 DEF Parsed, AtUrl
  <2> QED
    BY <1>2, <1>3, <1>6, <1>7, <2>2, GoesOnStep
<1>8. CASE cursor.k = Len(text) /\ cursor' = Place(cursor.req, "version", 0, 1)
  <2>1. cursor' \in CursorFields /\ cursor'.req = cursor.req /\ cursor'.part = "version"
    BY SMTT(30), <1>3, <1>8, PlacesAre
  <2>2. Parsed(q, cursor', Current)
    BY <1>4, <1>6, <1>8, <2>1 DEF Parsed, AtVersion
  <2> QED
    BY <1>2, <1>3, <1>6, <2>1, <2>2, GoesOnStep
<1> QED
  BY <1>1, <1>3, <1>4, <1>5, <1>7, <1>8, FurtherIs

LEMMA VersionByteStep == ASSUME ParserInv, VersionByte PROVE ParserInv'
<1>1. Sends("version") /\ cursor' = HeaderAt(cursor.req, 1)
  BY DEF VersionByte
<1>2. PICK u : u = Unmarked(parser)
  OBVIOUS
<1>3. PICK q : q = [u EXCEPT !.state = "headers"] /\ Routed(q)
  BY <1>2 DEF VersionByte
<1>4. /\ conn \in {"open", "shut"} /\ cursor.req <= Len(requests) /\ cursor.part = "version"
      /\ requests' = requests /\ inRead' \in BOOLEAN /\ url_start_mark' \in Nat
      /\ cursor \in CursorFields /\ cursor.req \in Nat
      /\ parser \in ParserFields /\ Current \in Requests /\ Current = requests[cursor.req]
      /\ Parsed(parser, cursor, Current)
  BY <1>1, SendsIs
<1>5. InUrl(parser, Current, Len(Target(Current)))
  BY <1>4, StartsAtUrl DEF Parsed, AtUrl, AtVersion, AtField, AtColon, AtValue, AtEol, AtEnd, AtBody
<1>6. /\ q \in ParserFields /\ Within(q, Current) /\ Rests(q) /\ HoldsBack(q, Current.headers, 0)
  BY <1>2, <1>3, <1>4, <1>5, VersionIs
<1>7. cursor' \in CursorFields /\ cursor'.req = cursor.req /\ Parsed(q, cursor', Current)
  <2>1. cursor' = HeaderAt(cursor.req, 0 + 1) /\ 0 <= Len(Current.headers)
    BY <1>1, <1>4, RequestIs
  <2> QED
    BY <1>4, <1>6, <2>1, HeaderBegins
<1>8. CASE HasRoute(q.url)
  <2>1. GoesOn(q)
    BY <1>3, <1>8 DEF Routed
  <2>2. MarkFits(url_start_mark', q)
    BY <1>6 DEF Rests, MarkFits
  <2> QED
    BY <1>4, <1>6, <1>7, <2>1, <2>2, GoesOnStep
<1>9. CASE ~HasRoute(q.url)
  <2>1. Refuse(q)
    BY <1>3, <1>9 DEF Routed
  <2>2. q.cut \/ Misplaced(q, Current) \/ ~HasRoute(Current.path)
    BY <1>6, <1>9 DEF Within, UrlRead
  <2> QED
    BY <1>4, <1>6, <1>7, <2>1, <2>2, RefuseStep
<1> QED
  BY <1>8, <1>9

LEMMA FieldByteStep == ASSUME ParserInv, FieldByte PROVE ParserInv'
<1>1. /\ Sends("field")
      /\ cursor' = Further(Current.headers[cursor.header].field, Place(cursor.req, "colon", cursor.header, 1))
  BY DEF FieldByte
<1>2. PICK u : u = Marked(parser, "field", Current.headers[cursor.header].field[cursor.k])
  OBVIOUS
<1>3. PICK q : q = [u EXCEPT !.state = "field"] /\ GoesOn(q)
  BY <1>2 DEF FieldByte
<1>4. /\ conn \in {"open", "shut"} /\ cursor.req <= Len(requests) /\ cursor.part = "field"
      /\ requests' = requests /\ inRead' \in BOOLEAN /\ url_start_mark' \in Nat
      /\ cursor \in CursorFields /\ cursor.req \in Nat /\ cursor.header \in Nat
      /\ parser \in ParserFields /\ Current \in Requests
      /\ Parsed(parser, cursor, Current)
  BY <1>1, SendsIs
<1>5. AtField(parser, cursor, Current)
  BY <1>4, StartsAtUrl DEF Parsed, AtUrl, AtVersion, AtColon, AtValue, AtEol, AtEnd, AtBody
<1>6. PICK i \in DOMAIN Current.headers : i = cursor.header
  BY <1>5 DEF AtField
<1>7. PICK text \in Text : text = Current.headers[i].field /\ Len(text) \in Nat /\ Len(text) > 0
  BY <1>4, <1>6, HeaderIs
<1>8. /\ cursor.k \in 1..Len(text) /\ Within(parser, Current)
      /\ Collects(parser, "field", cursor.k - 1) /\ InField(parser, Current.headers, i, cursor.k - 1)
  BY <1>5, <1>6, <1>7 DEF AtField
<1>9. /\ q \in ParserFields
      /\ Within(q, Current) /\ Collects(q, "field", cursor.k) /\ InField(q, Current.headers, i, cursor.k)
  BY <1>2, <1>3, <1>4, <1>6, <1>7, <1>8, FieldByteIs
<1>12. MarkFits(url_start_mark', q)
  <2>1. cursor.k # 0
    BY <1>8
  <2> QED
    BY <1>9, <2>1 DEF Collects, MarkFits
<1>10. CASE /\ cursor' \in CursorFields /\ cursor'.req = cursor.req /\ cursor'.part = cursor.part
            /\ cursor'.header = cursor.header
            /\ cursor'.k \in 1..Len(text) /\ cursor'.k - 1 = cursor.k /\ cursor'.k # 1
  <2>1. Parsed(q, cursor', Current)
    BY <1>4, <1>6, <1>7, <1>9, <1>10 DEF Parsed, AtField
  <2> QED
    BY <1>3, <1>4, <1>9, <1>10, <1>12, <2>1, GoesOnStep
<1>11. CASE cursor.k = Len(text) /\ cursor' = Place(cursor.req, "colon", cursor.header, 1)
  <2>1. /\ cursor' \in CursorFields /\ cursor'.req = cursor.req /\ cursor'.part = "colon"
        /\ cursor'.header = i /\ cursor'.k = 1
    BY <1>4, <1>6, <1>11, PlacesAre
  <2>2. Parsed(q, cursor', Current)
    BY <1>7, <1>9, <1>11, <2>1 DEF Parsed, AtColon
  <2> QED
    BY <1>3, <1>4, <1>9, <1>12, <2>1, <2>2, GoesOnStep
<1> QED
  BY <1>1, <1>4, <1>6, <1>7, <1>8, <1>10, <1>11, FurtherIs

LEMMA ColonByteStep == ASSUME ParserInv, ColonByte PROVE ParserInv'
<1>1. Sends("colon")
  BY DEF ColonByte
<1>2. PICK u : u = Unmarked(parser)
  OBVIOUS
<1>3. PICK q : q = [u EXCEPT !.state = "headers"] /\ GoesOn(q)
  BY <1>2 DEF ColonByte
<1>4. /\ conn \in {"open", "shut"} /\ cursor.req <= Len(requests) /\ cursor.part = "colon"
      /\ requests' = requests /\ inRead' \in BOOLEAN /\ url_start_mark' \in Nat
      /\ cursor \in CursorFields /\ cursor.req \in Nat /\ cursor.header \in Nat
      /\ parser \in ParserFields /\ Current \in Requests
      /\ Parsed(parser, cursor, Current)
  BY <1>1, SendsIs
<1>5. AtColon(parser, cursor, Current)
  BY <1>4, StartsAtUrl DEF Parsed, AtUrl, AtVersion, AtField, AtValue, AtEol, AtEnd, AtBody
<1>6. PICK i \in DOMAIN Current.headers : i = cursor.header
  BY <1>5 DEF AtColon
<1>7. PICK text \in Text : text = Current.headers[i].value /\ Len(text) \in Nat
  BY <1>4, <1>6, HeaderIs
<1>8. q \in ParserFields /\ Within(q, Current) /\ Rests(q) /\ InValue(q, Current.headers, i, 0)
  BY <1>2, <1>3, <1>4, <1>5, <1>6, ColonByteIs DEF AtColon
<1>9. PICK part \in {"eol", "value"} : part = IF text = <<>> THEN "eol" ELSE "value"
  OBVIOUS
<1>10. /\ cursor' \in CursorFields /\ cursor'.req = cursor.req /\ cursor'.part = part
       /\ cursor'.header = i /\ cursor'.k = 1
  <2>1. cursor' = [cursor EXCEPT !.part = part]
    BY <1>6, <1>7, <1>9 DEF ColonByte
  <2> QED
    BY <1>4, <1>5, <1>6, <1>9, <2>1 DEF CursorFields, AtColon
<1>11. Collects(q, "value", 0)
  BY <1>8 DEF Collects
<1>12. Parsed(q, cursor', Current)
  <2>1. CASE part = "eol"
    <3>1. Len(text) = 0
      BY <1>9, <2>1
    <3> QED
      BY <1>7, <1>8, <1>10, <1>11, <2>1, <3>1 DEF Parsed, AtEol
  <2>2. CASE part = "value"
    <3>1. 1 \in 1..Len(text) /\ 1 - 1 = 0
      <4>1. text # <<>>
        BY <1>9, <2>2
      <4>2. Len(text) \in Nat \ {0}
        BY <4>1, EmptySeq DEF Text
      <4> QED
        BY <4>2
    <3> QED
      BY <1>7, <1>8, <1>10, <1>11, <2>2, <3>1 DEF Parsed, AtValue
  <2> QED
    BY <2>1, <2>2
<1>13. MarkFits(url_start_mark', q)
  BY <1>8 DEF Rests, MarkFits
<1> QED
  BY <1>3, <1>4, <1>8, <1>10, <1>12, <1>13, GoesOnStep

LEMMA ValueByteStep == ASSUME ParserInv, ValueByte PROVE ParserInv'
<1>1. /\ Sends("value")
      /\ cursor' = Further(Current.headers[cursor.header].value, Place(cursor.req, "eol", cursor.header, 1))
  BY DEF ValueByte
<1>2. PICK u : u = Marked(parser, "value", Current.headers[cursor.header].value[cursor.k])
  OBVIOUS
<1>3. PICK q : q = [u EXCEPT !.state = "value"] /\ GoesOn(q)
  BY <1>2 DEF ValueByte
<1>4. /\ conn \in {"open", "shut"} /\ cursor.req <= Len(requests) /\ cursor.part = "value"
      /\ requests' = requests /\ inRead' \in BOOLEAN /\ url_start_mark' \in Nat
      /\ cursor \in CursorFields /\ cursor.req \in Nat /\ cursor.header \in Nat
      /\ parser \in ParserFields /\ Current \in Requests
      /\ Parsed(parser, cursor, Current)
  BY <1>1, SendsIs
<1>5. AtValue(parser, cursor, Current)
  BY <1>4, StartsAtUrl DEF Parsed, AtUrl, AtVersion, AtField, AtColon, AtEol, AtEnd, AtBody
<1>6. PICK i \in DOMAIN Current.headers : i = cursor.header
  BY <1>5 DEF AtValue
<1>7. PICK text \in Text : text = Current.headers[i].value /\ Len(text) \in Nat
  BY <1>4, <1>6, HeaderIs
<1>8. /\ cursor.k \in 1..Len(text) /\ Within(parser, Current)
      /\ Collects(parser, "value", cursor.k - 1) /\ InValue(parser, Current.headers, i, cursor.k - 1)
  BY <1>5, <1>6, <1>7 DEF AtValue
<1>9. /\ q \in ParserFields
      /\ Within(q, Current) /\ Collects(q, "value", cursor.k) /\ InValue(q, Current.headers, i, cursor.k)
  BY <1>2, <1>3, <1>4, <1>6, <1>7, <1>8, ValueByteIs
<1>12. MarkFits(url_start_mark', q)
  <2>1. cursor.k # 0
    BY <1>8
  <2> QED
    BY <1>9, <2>1 DEF Collects, MarkFits
<1>10. CASE /\ cursor' \in CursorFields /\ cursor'.req = cursor.req /\ cursor'.part = cursor.part
            /\ cursor'.header = cursor.header
            /\ cursor'.k \in 1..Len(text) /\ cursor'.k - 1 = cursor.k /\ cursor'.k # 1
  <2>1. Parsed(q, cursor', Current)
    BY <1>4, <1>6, <1>7, <1>9, <1>10 DEF Parsed, AtValue
  <2> QED
    BY <1>3, <1>4, <1>9, <1>10, <1>12, <2>1, GoesOnStep
<1>11. CASE cursor.k = Len(text) /\ cursor' = Place(cursor.req, "eol", cursor.header, 1)
  <2>1. /\ cursor' \in CursorFields /\ cursor'.req = cursor.req /\ cursor'.part = "eol"
        /\ cursor'.header = i
    BY <1>4, <1>6, <1>11, PlacesAre
  <2>2. Parsed(q, cursor', Current)
    BY <1>7, <1>9, <1>11, <2>1 DEF Parsed, AtEol
  <2> QED
    BY <1>3, <1>4, <1>9, <1>12, <2>1, <2>2, GoesOnStep
<1> QED
  BY <1>1, <1>4, <1>6, <1>7, <1>8, <1>10, <1>11, FurtherIs

LEMMA EolByteStep == ASSUME ParserInv, EolByte PROVE ParserInv'
<1>1. Sends("eol") /\ cursor' = HeaderAt(cursor.req, cursor.header + 1)
  BY DEF EolByte
<1>2. PICK v : v = [parser EXCEPT !.marked = "value"]
  OBVIOUS
<1>3. PICK u : u = Unmarked(v)
  OBVIOUS
<1>4. PICK q : q = [u EXCEPT !.state = "headers"] /\ GoesOn(q)
  BY <1>2, <1>3 DEF EolByte
<1>5. /\ conn \in {"open", "shut"} /\ cursor.req <= Len(requests) /\ cursor.part = "eol"
      /\ requests' = requests /\ inRead' \in BOOLEAN /\ url_start_mark' \in Nat
      /\ cursor \in CursorFields /\ cursor.req \in Nat /\ cursor.header \in Nat
      /\ parser \in ParserFields /\ Current \in Requests /\ Current = requests[cursor.req]
      /\ Parsed(parser, cursor, Current)
  BY <1>1, SendsIs
<1>6. AtEol(parser, cursor, Current)
  BY <1>5, StartsAtUrl DEF Parsed, AtUrl, AtVersion, AtField, AtColon, AtValue, AtEnd, AtBody
<1>7. PICK i \in DOMAIN Current.headers : i = cursor.header
  BY <1>6 DEF AtEol
<1>8. /\ q \in ParserFields /\ Within(q, Current) /\ Rests(q) /\ HoldsBack(q, Current.headers, i)
  BY <1>2, <1>3, <1>4, <1>5, <1>6, <1>7, EolByteIs DEF AtEol
<1>9. i \in Nat /\ i <= Len(Current.headers)
  BY <1>5, <1>7, HeaderIs
<1>10. cursor' \in CursorFields /\ cursor'.req = cursor.req /\ Parsed(q, cursor', Current)
  BY SMTT(30), <1>1, <1>5, <1>7, <1>8, <1>9, HeaderBegins
<1>11. MarkFits(url_start_mark', q)
  BY <1>8 DEF Rests, MarkFits
<1> QED
  BY <1>4, <1>5, <1>8, <1>10, <1>11, GoesOnStep

LEMMA EndByteStep == ASSUME ParserInv, EndByte PROVE ParserInv'
<1>1. Sends("end")
  BY DEF EndByte
<1>2. PICK q : q = OnHeadersComplete(parser, Current.close)
  OBVIOUS
<1>3. /\ conn \in {"open", "shut"} /\ cursor.req <= Len(requests) /\ cursor.part = "end"
      /\ requests' = requests /\ inRead' \in BOOLEAN /\ url_start_mark' \in Nat
      /\ cursor \in CursorFields /\ cursor.req \in Nat
      /\ parser \in ParserFields /\ Current \in Requests
      /\ Parsed(parser, cursor, Current)
  BY <1>1, SendsIs
<1>4. Within(parser, Current) /\ Rests(parser) /\ HoldsBack(parser, Current.headers, Len(Current.headers))
  BY <1>3, StartsAtUrl DEF Parsed, AtUrl, AtVersion, AtField, AtColon, AtValue, AtEol, AtEnd, AtBody
<1>5. /\ q \in ParserFields
      /\ ListsOnly(q.headers, Current.headers, Kept(Current.headers))
      /\ UrlRead(q, Current) /\ NoBody(q)
      /\ q.marked = "none" /\ q.piece = <<>>
  BY <1>2, <1>3, <1>4, EndOfHeadersIs
<1>6. Current.body \in Text /\ Len(Current.body) \in Nat
  BY <1>3, RequestIs, LengthIs
<1>7. CASE Len(Current.body) = 0 /\ cursor' = FirstOf(cursor.req + 1) /\ Handle(q)
  <2>1. q.body = Current.body
    BY <1>5, <1>6, <1>7, EmptySeq DEF NoBody, Text
  <2> QED
    BY <1>3, <1>5, <1>7, <2>1, HandleStep
<1>8. ASSUME Len(Current.body) > 0, cursor' = Place(cursor.req, "body", 0, 1),
             GoesOn([q EXCEPT !.state = "body", !.left = Len(Current.body)])
      PROVE  ParserInv'
  <2>1. PICK t : t = [q EXCEPT !.state = "body", !.left = Len(Current.body)]
    OBVIOUS
  <2>2. t \in ParserFields /\ InBody(t, Current, 0)
    BY <1>3, <1>5, <2>1, BodyBegins
  <2>3. cursor' \in CursorFields /\ cursor'.req = cursor.req /\ cursor'.part = "body" /\ cursor'.k = 1
    BY <1>3, <1>8, PlacesAre
  <2>4. 1 \in 1..Len(Current.body) /\ 1 - 1 = 0
    BY <1>6, <1>8
  <2>5. Parsed(t, cursor', Current)
    BY <2>2, <2>3, <2>4 DEF Parsed, AtBody
  <2>6. GoesOn(t)
    BY <1>8, <2>1
  <2>7. MarkFits(url_start_mark', t)
    BY <2>2 DEF InBody, MarkFits
  <2> QED
    BY <1>3, <2>2, <2>3, <2>5, <2>6, <2>7, GoesOnStep
<1> QED
  BY <1>2, <1>7, <1>8 DEF EndByte

LEMMA BodyByteStep == ASSUME ParserInv, BodyByte PROVE ParserInv'
<1>1. Sends("body") /\ cursor' = Further(Current.body, FirstOf(cursor.req + 1))
  BY DEF BodyByte
<1>2. PICK u : u = Marked(parser, "body", Current.body[cursor.k])
  OBVIOUS
<1>3. PICK q : q = OneLess(u)
  OBVIOUS
<1>4. IF q.left > 0 THEN GoesOn(q) ELSE Handle(Unmarked(q))
  BY <1>2, <1>3 DEF BodyByte, OneLess
<1>5. /\ conn \in {"open", "shut"} /\ cursor.req <= Len(requests) /\ cursor.part = "body"
      /\ requests' = requests /\ inRead' \in BOOLEAN /\ url_start_mark' \in Nat
      /\ cursor \in CursorFields /\ cursor.req \in Nat
      /\ parser \in ParserFields /\ Current \in Requests
      /\ Parsed(parser, cursor, Current)
  BY <1>1, SendsIs
<1>6. cursor.k \in 1..Len(Current.body) /\ InBody(parser, Current, cursor.k - 1)
  BY <1>5, StartsAtUrl DEF Parsed, AtUrl, AtVersion, AtField, AtColon, AtValue, AtEol, AtEnd, AtBody
<1>7. Current.body \in Text /\ Len(Current.body) \in Nat
  BY <1>5, RequestIs, LengthIs
<1>8. /\ q \in ParserFields /\ q.marked = "body" /\ InBody(q, Current, cursor.k)
      /\ (q.left > 0 <=> cursor.k < Len(Current.body))
  BY <1>2, <1>3, <1>5, <1>6, BodyByteIs
<1>9. CASE /\ cursor.k < Len(Current.body)
           /\ cursor' \in CursorFields /\ cursor'.req = cursor.req /\ cursor'.part = cursor.part
           /\ cursor'.k \in 1..Len(Current.body) /\ cursor'.k - 1 = cursor.k
  <2>1. GoesOn(q)
    BY <1>4, <1>8, <1>9
  <2>2. Parsed(q, cursor', Current)
    BY <1>5, <1>8, <1>9 DEF Parsed, AtBody
  <2>3. MarkFits(url_start_mark', q)
    BY <1>8 DEF InBody, MarkFits
  <2> QED
    BY <1>5, <1>8, <1>9, <2>1, <2>2, <2>3, GoesOnStep
<1>10. CASE cursor.k = Len(Current.body) /\ cursor' = FirstOf(cursor.req + 1)
  <2>1. PICK t : t = Unmarked(q)
    OBVIOUS
  <2>2. Handle(t)
    BY <1>4, <1>7, <1>8, <1>10, <2>1
  <2>3. /\ t \in ParserFields
        /\ ListsOnly(t.headers, Current.headers, Kept(Current.headers))
        /\ UrlRead(t, Current) /\ t.body = Current.body
    BY <1>5, <1>8, <1>10, <2>1, BodyComplete
  <2> QED
    BY <1>5, <1>10, <2>2, <2>3, HandleStep
<1> QED
  BY <1>1, <1>5, <1>6, <1>7, <1>9, <1>10, FurtherIs

\* The end of a read leaves the parser where it is.
LEMMA ParsedPaused ==
    ASSUME NEW q \in ParserFields, NEW c, NEW r \in Requests, Parsed(q, c, r),
           NEW t, t = ReadEnded(q)
    PROVE  Parsed(t, c, r)
<1>1. Paused(t, q)
  BY ReadEndedIs
<1>2. CASE AtStart(q, c)
  <2>1. t = q
    BY <1>2, StartPaused DEF AtStart
  <2> QED
    BY <1>2, <2>1 DEF Parsed
<1>3. CASE AtUrl(q, c, r)
  <2>1. c.part = "url" /\ c.k \in 2..Len(Target(r)) /\ InUrl(t, r, c.k - 1)
    BY <1>1, <1>3, UrlPaused DEF AtUrl
  <2> QED
    BY <2>1 DEF Parsed, AtUrl
<1>4. CASE AtVersion(q, c, r)
  <2>1. c.part = "version" /\ InUrl(t, r, Len(Target(r)))
    BY <1>1, <1>4, UrlPaused DEF AtVersion
  <2> QED
    BY <2>1 DEF Parsed, AtVersion
<1>5. CASE AtField(q, c, r)
  <2>1. PICK i \in DOMAIN r.headers : i = c.header
    BY <1>5 DEF AtField
  <2>2. PICK n \in Nat, k \in Nat : n = Len(r.headers[i].field) /\ k = c.k /\ k \in 1..n /\ k - 1 \in 0..n
    BY <1>5, <2>1, HeaderIs DEF AtField
  <2>3. Within(q, r) /\ Collects(q, "field", k - 1) /\ InField(q, r.headers, i, k - 1)
    BY <1>5, <2>1, <2>2 DEF AtField
  <2>4. Within(t, r) /\ Collects(t, "field", k - 1) /\ InField(t, r.headers, i, k - 1)
    BY <1>1, <2>2, <2>3, FieldPaused
  <2>5. AtField(t, c, r)
    BY <1>5, <2>1, <2>2, <2>4 DEF AtField
  <2> QED
    BY <2>5 DEF Parsed
<1>6. CASE AtColon(q, c, r)
  <2>1. PICK i \in DOMAIN r.headers : i = c.header
    BY <1>6 DEF AtColon
  <2>2. PICK n \in Nat : n = Len(r.headers[i].field) /\ n \in 0..n
    BY <2>1, HeaderIs
  <2>3. Within(q, r) /\ Collects(q, "field", n) /\ InField(q, r.headers, i, n)
    BY <1>6, <2>1, <2>2 DEF AtColon
  <2>4. Within(t, r) /\ Collects(t, "field", n) /\ InField(t, r.headers, i, n)
    BY <1>1, <2>2, <2>3, FieldPaused
  <2>5. AtColon(t, c, r)
    BY <1>6, <2>1, <2>2, <2>4 DEF AtColon
  <2> QED
    BY <2>5 DEF Parsed
<1>7. CASE AtValue(q, c, r)
  <2>1. PICK i \in DOMAIN r.headers : i = c.header
    BY <1>7 DEF AtValue
  <2>2. PICK n \in Nat, k \in Nat : n = Len(r.headers[i].value) /\ k = c.k /\ k \in 1..n /\ k - 1 \in 0..n
    BY <1>7, <2>1, HeaderIs, LengthIs DEF AtValue
  <2>3. Within(q, r) /\ Collects(q, "value", k - 1) /\ InValue(q, r.headers, i, k - 1)
    BY <1>7, <2>1, <2>2 DEF AtValue
  <2>4. Within(t, r) /\ Collects(t, "value", k - 1) /\ InValue(t, r.headers, i, k - 1)
    BY <1>1, <2>2, <2>3, ValuePaused
  <2>5. AtValue(t, c, r)
    BY <1>7, <2>1, <2>2, <2>4 DEF AtValue
  <2> QED
    BY <2>5 DEF Parsed
<1>8. CASE AtEol(q, c, r)
  <2>1. PICK i \in DOMAIN r.headers : i = c.header
    BY <1>8 DEF AtEol
  <2>2. PICK n \in Nat : n = Len(r.headers[i].value) /\ n \in 0..n
    BY <2>1, HeaderIs, LengthIs
  <2>3. Within(q, r) /\ Collects(q, "value", n) /\ InValue(q, r.headers, i, n)
    BY <1>8, <2>1, <2>2 DEF AtEol
  <2>4. Within(t, r) /\ Collects(t, "value", n) /\ InValue(t, r.headers, i, n)
    BY <1>1, <2>2, <2>3, ValuePaused
  <2>5. AtEol(t, c, r)
    BY <1>8, <2>1, <2>2, <2>4 DEF AtEol
  <2> QED
    BY <2>5 DEF Parsed
<1>9. CASE AtEnd(q, c, r)
  <2>1. Within(q, r) /\ Rests(q) /\ HoldsBack(q, r.headers, Len(r.headers))
    BY <1>9 DEF AtEnd
  <2>2. Rests(t) /\ SameHeaders(t, q)
    BY <1>1, <2>1, RestPaused
  <2>3. Within(t, r)
    BY <1>1, <2>1, WithinPaused DEF Rests
  <2>4. HoldsBack(t, r.headers, Len(r.headers))
    BY <2>1, <2>2 DEF HoldsBack, NoHeaders, ListsFirst, SameHeaders
  <2> QED
    BY <1>9, <2>2, <2>3, <2>4 DEF Parsed, AtEnd
<1>10. CASE AtBody(q, c, r)
  <2>1. InBody(t, r, c.k - 1)
    BY <1>1, <1>10, BodyPaused DEF AtBody
  <2> QED
    BY <1>10, <2>1 DEF Parsed, AtBody
<1> QED
  BY <1>2, <1>3, <1>4, <1>5, <1>6, <1>7, <1>8, <1>9, <1>10 DEF Parsed

LEMMA EndReadStep == ASSUME ParserInv, EndRead PROVE ParserInv'
<1>1. /\ conn \in {"open", "shut"} /\ inRead' = FALSE /\ url_start_mark' = 0
      /\ requests' = requests /\ cursor' = cursor
  BY DEF EndRead
<1>2. PICK q : q = ReadEnded(parser)
  OBVIOUS
<1>3. IF parser.state = "url" /\ ~HasRoute(q.url) THEN Refuse(q)
      ELSE /\ parser' = q
           /\ conn' = IF conn = "shut" \/ closing THEN "closed" ELSE "open"
           /\ closing' = closing /\ answers' = answers
  BY <1>2 DEF EndRead
<1>4. /\ parser \in ParserFields /\ cursor \in CursorFields /\ InStep
      /\ cursor.req \in Nat /\ Len(requests) \in Nat
  BY <1>1 DEF ParserInv, ParserTypeOK
<1>5. q \in ParserFields /\ (q.cut <=> (parser.cut \/ parser.state = "url"))
      /\ q.state = parser.state /\ q.left = parser.left
  BY <1>2, <1>4, ReadEndedIs DEF Paused
<1>6. ASSUME /\ parser' = q
             /\ conn' = IF conn = "shut" \/ closing THEN "closed" ELSE "open"
             /\ closing' = closing /\ answers' = answers,
             InStep'
      PROVE  ParserInv'
  <2>1. ParserTypeOK'
    BY <1>1, <1>5, <1>6 DEF ParserInv, ParserTypeOK
  <2>2. MarkFits(url_start_mark', parser')
    BY <1>5, <1>6 DEF MarkFits
  <2> QED
    BY <1>1, <1>6, <2>1, <2>2 DEF ParserInv
<1>7. CASE cursor.req > Len(requests)
  <2>1. AtStart(parser, cursor)
    BY <1>4, <1>7 DEF InStep
  <2>2. q = parser /\ parser.state # "url"
    BY <1>2, <2>1, StartPaused DEF AtStart, Cleared
  <2>3. parser' = parser /\ answers' = answers
    BY <1>3, <2>2
  <2>4. InStep'
    BY <1>1, <1>4, <2>3 DEF InStep
  <2> QED
    BY <1>3, <1>6, <2>2, <2>4
<1>8. CASE cursor.req <= Len(requests)
  <2>1. Current \in Requests /\ Current = requests[cursor.req] /\ Parsed(parser, cursor, Current)
    BY <1>1, <1>8, CurrentIs
  <2>2. Parsed(q, cursor, Current)
    BY <1>2, <1>4, <2>1, ParsedPaused
  <2>3. CASE parser.state = "url" /\ ~HasRoute(q.url)
    <3>1. Refuse(q) /\ q.cut /\ cursor' \in CursorFields /\ cursor'.req = cursor.req
          /\ inRead' \in BOOLEAN /\ url_start_mark' \in Nat
      BY <1>1, <1>3, <1>4, <1>5, <2>3
    <3> QED
      BY <1>1, <1>5, <1>8, <3>1, RefuseStep
  <2>4. CASE ~(parser.state = "url" /\ ~HasRoute(q.url))
    <3>1. parser' = q /\ answers' = answers
      BY <1>3, <2>4
    <3>2. ~(cursor.req > Len(requests))
      BY <1>4, <1>8
    <3>3. InStep'
      BY <1>1, <1>4, <2>1, <2>2, <3>1, <3>2 DEF InStep
    <3> QED
      BY <1>3, <1>6, <2>4, <3>3
  <2> QED
    BY <2>3, <2>4
<1> QED
  BY <1>4, <1>7, <1>8

LEMMA EofStep == ASSUME ParserInv, Eof PROVE ParserInv'
<1>1. /\ conn = "open" /\ conn' = "closed"
      /\ requests' = requests /\ cursor' = cursor /\ inRead' = inRead /\ url_start_mark' = url_start_mark
      /\ parser' = parser
      /\ closing' = closing /\ answers' = answers
  BY DEF Eof
<1> QED
  BY <1>1 DEF ParserInv, ParserTypeOK

LEMMA InitParserInv == ParserInit => ParserInv
<1> SUFFICES ASSUME ParserInit PROVE ParserInv
  OBVIOUS
<1>1. PICK n \in 1..MaxRequests : requests \in [1..n -> Requests]
  BY DEF ParserInit
<1>2. n \in Nat /\ n >= 1
  BY <1>1, CrowParserAssumption
<1>3. requests \in Seq(Requests) /\ Len(requests) = n
  BY <1>1, <1>2
<1>4. /\ cursor = FirstOf(1) /\ inRead = FALSE /\ url_start_mark = 0 /\ parser = Cleared
      /\ conn = "open" /\ closing = FALSE /\ answers = <<>>
  BY DEF ParserInit
<1>5. cursor \in CursorFields /\ cursor.req = 1 /\ AtStart(parser, cursor)
  BY <1>4, FirstIs
<1>6. parser \in ParserFields /\ parser.state # "body" /\ parser.left = 0
  BY <1>4, ClearedIs DEF Cleared
<1>7. answers \in Seq(AnswerFields) /\ Len(answers) = 0 /\ DOMAIN answers = {}
  BY <1>4
<1>8. 1 \in 1..n + 1 /\ ~(0 > n) /\ 0 <= n /\ 1 = 0 + 1
  BY <1>2
<1>9. ParserTypeOK
  <2>1. cursor.req \in 1..Len(requests) + 1
    BY <1>3, <1>5, <1>8
  <2>2. inRead \in BOOLEAN /\ url_start_mark \in Nat /\ closing \in BOOLEAN /\ conn \in {"open", "shut", "closed", "threw"}
    BY <1>4
  <2>3. parser.state = "body" <=> parser.left > 0
    BY <1>6
  <2> QED
    BY <1>3, <1>5, <1>6, <1>7, <2>1, <2>2, <2>3 DEF ParserTypeOK
<1>10. InStep
  BY <1>5, <1>7, <1>8 DEF InStep, Parsed
<1>11. MarkFits(url_start_mark, parser)
  BY <1>4 DEF MarkFits, Cleared
<1> QED
  BY <1>3, <1>7, <1>8, <1>9, <1>10, <1>11 DEF ParserInv

LEMMA ParserInvHolds == ParserSpec => []ParserInv
<1>1. ParserInv /\ [ParserNext]_parserVars => ParserInv'
  <2> SUFFICES ASSUME ParserInv, [ParserNext]_parserVars PROVE ParserInv'
    OBVIOUS
  <2>1. CASE ParserNext
    BY <2>1, UrlByteStep, VersionByteStep, FieldByteStep, ColonByteStep, ValueByteStep, EolByteStep,
       EndByteStep, BodyByteStep, EndReadStep, EofStep DEF ParserNext
  <2>2. CASE UNCHANGED parserVars
    <3>1. /\ requests' = requests /\ cursor' = cursor /\ inRead' = inRead /\ url_start_mark' = url_start_mark
          /\ parser' = parser
          /\ conn' = conn /\ closing' = closing /\ answers' = answers
      BY <2>2 DEF parserVars
    <3> QED
      BY <3>1 DEF ParserInv, ParserTypeOK, InStep, MarkFits
  <2> QED
    BY <2>1, <2>2
<1> QED
  BY <1>1, InitParserInv, PTL DEF ParserSpec

\* The types of the parser's connection hold in every reachable state, for every set
\* of requests and every number of them.
THEOREM ParserTypeCorrect == ParserSpec => []ParserTypeOK
<1>1. ParserInv => ParserTypeOK
  BY DEF ParserInv
<1> QED
  BY <1>1, ParserInvHolds, PTL

\* A request is answered from what the client sent, in its turn, wherever the reads
\* end: for all texts of paths, queries, headers and bodies, and any number of
\* requests on the connection.
THEOREM RequestsReadRight == ParserSpec => []HandlersGetWhatWasSent
<1>1. ParserInv => AllAnswered
  <2> SUFFICES ASSUME ParserInv PROVE AllAnswered
    OBVIOUS
  <2>1. Len(answers) <= Len(requests)
    BY DEF ParserInv
  <2>2. ASSUME conn = "open", parser.state = "start" PROVE cursor = FirstOf(Len(answers) + 1)
    <3>1. InStep /\ parser \in ParserFields /\ cursor.req \in Nat /\ Len(requests) \in Nat
      BY <2>2 DEF ParserInv, ParserTypeOK
    <3>2. CASE cursor.req > Len(requests)
      BY <3>1, <3>2 DEF InStep, AtStart
    <3>3. CASE cursor.req <= Len(requests)
      <4>1. Current \in Requests /\ Parsed(parser, cursor, Current)
        BY <2>2, <3>3, CurrentIs
      <4>2. AtStart(parser, cursor)
        BY <2>2, <3>1, <4>1, ParsedState
      <4> QED
        BY <3>1, <4>2 DEF InStep, AtStart
    <3> QED
      BY <3>1, <3>2, <3>3
  <2> QED
    BY <2>1, <2>2 DEF AllAnswered
<1>2. ParserInv => HandlersGetWhatWasSent
  BY <1>1 DEF ParserInv, HandlersGetWhatWasSent
<1> QED
  BY <1>2, ParserInvHolds, PTL

-----------------------------------------------------------------------------
(* The query string *)

\* The places w of the characters of a text t, whose codes follow each other.
Spaced(f, t, w) ==
    /\ Len(w) = Len(t) + 1
    /\ \A i \in 1..Len(t) : w[i + 1] = w[i] + Len(Code(t[i], f))
    /\ \A i, j \in 1..Len(t) + 1 : i < j => w[i] < w[j]
    /\ \A i \in 1..Len(t) + 1 : w[1] + i <= w[i] + 1

\* The key at s in the buffer q, the codes of t from its i-th character on, and the
\* first i - 1 characters of t as they were typed.
KeyAt(q, key, s) ==
    (\A j \in 1..Len(key) : q[s + j - 1] = key[j]) /\ q[s + Len(key)] = "="
Coded(f, q, t, w, i) ==
    \A j \in i..Len(t) : \A m \in 1..Len(Code(t[j], f)) : q[w[j] + m - 1] = Code(t[j], f)[m]
Plainly(q, t, v, i) == \A j \in 1..i - 1 : q[v + j - 1] = t[j]
NoStops(q, first, last) == \A p \in first..last : q[p] \notin Stops

Begin(k) == places[k][1] - Len(Keys[k]) - 1
End(k) == places[k][Len(typed[k]) + 1]
Behind(k) == IF k < Len(Keys) THEN "&" ELSE Nul

\* Pair follows pair.
Layout ==
    /\ \A k \in 1..entry : /\ Spaced(form, typed[k], places[k])
                           /\ Begin(k) >= 2 /\ End(k) <= Len(qs) + 1
    /\ Begin(1) = 2
    /\ \A k \in 1..entry - 1 : Begin(k + 1) = End(k) + 1
    /\ \A k, l \in 1..entry : k < l => End(k) < Begin(l)
    /\ \A k \in entry + 1..Len(Keys) : typed[k] = <<>>
    /\ IF stage = "typing" THEN End(entry) = Len(qs) + 1 ELSE entry = Len(Keys) /\ End(entry) = Len(qs)

\* How far qs_parse has come.
Parsing ==
    /\ stage = "typing" => qs_kv = <<>>
    /\ stage \in {"typing", "pairs"} => decoded = 0 /\ qs[1] = "?"
    /\ stage = "pairs" => Len(qs_kv) < Len(Keys) /\ from = Begin(Len(qs_kv) + 1)
    /\ stage \in {"values", "value", "read"} => Len(qs_kv) = Len(Keys)
    /\ stage = "value" => decoded < Len(Keys)
    /\ stage = "read" => decoded = Len(Keys)
    /\ \A k \in 1..Len(qs_kv) : qs_kv[k] = Begin(k)

InHand(k) == stage = "value" /\ k = decoded + 1

PairRight(k) ==
    /\ KeyAt(qs, Keys[k], Begin(k))
    /\ k <= decoded => /\ Plainly(qs, typed[k], places[k][1], Len(typed[k]) + 1)
                       /\ qs[places[k][1] + Len(typed[k])] = Nul
    /\ k > decoded =>
          /\ k < entry \/ stage # "typing" => qs[End(k)] = Behind(k)
          /\ ~InHand(k) => /\ Coded(form, qs, typed[k], places[k], 1)
                           /\ NoStops(qs, places[k][1], End(k) - 1)
          /\ InHand(k) =>
                \E i \in 1..Len(typed[k]) + 1 :
                    /\ from = places[k][i] /\ to = places[k][1] + i - 1
                    /\ Plainly(qs, typed[k], places[k][1], i)
                    /\ Coded(form, qs, typed[k], places[k], i)
Contents == \A k \in 1..entry : PairRight(k)

QueryInv == QueryTypeOK /\ Layout /\ Parsing /\ Contents

LEMMA SignsAre ==
    /\ {"?", "&", "=", "#", "%", "+", " "} \cap Plain = {} /\ Nul \notin Plain
    /\ {"?", "&", "=", "#", "%", "+", " "} \subseteq Characters
    /\ \A c \in Plain : c \in Characters /\ c \notin Stops /\ c \notin {"?", "%", "+", " "}
  BY QueryStringAssumption DEF Characters, Stops

LEMMA EscapeIs ==
    ASSUME NEW c \in Characters, c \notin Plain
    PROVE  /\ c \in DOMAIN Escapes /\ Escapes[c][1] \in Plain /\ Escapes[c][2] \in Plain
           /\ Escapes[c] = <<Escapes[c][1], Escapes[c][2]>>
<1>1. c \in DOMAIN Escapes
  BY DEF Characters
<1>2. Escapes[c] \in Plain \X Plain
  BY <1>1, QueryStringAssumption
<1> QED
  BY <1>1, <1>2

\* The code of a character has one or three signs, and no stop is among them.
LEMMA CodeIs ==
    ASSUME NEW c \in Characters, NEW f \in BOOLEAN
    PROVE  /\ Code(c, f) \in Seq(Characters) /\ Len(Code(c, f)) \in {1, 3}
           /\ \A m \in 1..Len(Code(c, f)) : Code(c, f)[m] \in Characters /\ Code(c, f)[m] \notin Stops
<1>1. CASE c \in Plain
  <2>1. Code(c, f) = <<c>>
    BY <1>1 DEF Code
  <2>2. c \notin Stops
    BY <1>1, SignsAre
  <2> QED
    BY <2>1, <2>2
<1>2. CASE c \notin Plain /\ c = " " /\ f
  <2>1. Code(c, f) = <<"+">>
    BY <1>2 DEF Code
  <2>2. "+" \in Characters /\ "+" \notin Stops
    BY SignsAre DEF Stops, Nul
  <2> QED
    BY <2>1, <2>2
<1>3. CASE c \notin Plain /\ ~(c = " " /\ f)
  <2>1. Code(c, f) = <<"%", Escapes[c][1], Escapes[c][2]>>
    BY <1>3 DEF Code
  <2>2. "%" \in Characters /\ "%" \notin Stops
    BY SignsAre DEF Stops, Nul
  <2>3. PICK a \in Plain, b \in Plain : a = Escapes[c][1] /\ b = Escapes[c][2]
    BY <1>3, EscapeIs
  <2>4. a \in Characters /\ b \in Characters /\ a \notin Stops /\ b \notin Stops
    BY SignsAre
  <2>5. PICK s : s = <<"%", a, b>>
    OBVIOUS
  <2>6. s \in Seq(Characters) /\ Len(s) = 3 /\ s[1] = "%" /\ s[2] = a /\ s[3] = b
    BY <2>2, <2>4, <2>5
  <2>7. \A m \in 1..3 : m = 1 \/ m = 2 \/ m = 3
    OBVIOUS
  <2> QED
    BY <2>1, <2>2, <2>3, <2>4, <2>5, <2>6, <2>7
<1> QED
  BY <1>1, <1>2, <1>3

\* Places grow along a text.
LEMMA SpacedIs ==
    ASSUME NEW f \in BOOLEAN, NEW t \in Seq(Characters), NEW w \in Seq(Nat), Spaced(f, t, w),
           NEW i \in 1..Len(t) + 1, NEW j \in 1..Len(t) + 1, i <= j
    PROVE  /\ i \in Nat /\ j \in Nat /\ w[i] \in Nat /\ w[j] \in Nat
           /\ w[i] <= w[j] /\ w[1] + j <= w[j] + 1 /\ w[1] \in Nat
<1>1. PICK n \in Nat : n = Len(t) /\ n + 1 = Len(w)
  BY DEF Spaced
<1>2. i \in 1..n + 1 /\ j \in 1..n + 1 /\ 1 \in 1..n + 1
  BY <1>1
<1>3. \A k \in 1..n + 1 : w[k] \in Nat
  BY <1>1
<1>4. i = j \/ i < j
  BY <1>2
<1>5. i < j => w[i] < w[j]
  BY <1>1, <1>2 DEF Spaced
<1>6. w[1] + j <= w[j] + 1
  BY <1>1, <1>2 DEF Spaced
<1> QED
  BY <1>2, <1>3, <1>4, <1>5, <1>6

\* The signs of one code lie between its place and the next.
LEMMA CodePlace ==
    ASSUME NEW f \in BOOLEAN, NEW t \in Seq(Characters), NEW w \in Seq(Nat), Spaced(f, t, w),
           NEW i \in Nat, i > 0, NEW j \in i..Len(t), NEW m \in 1..Len(Code(t[j], f))
    PROVE  /\ j \in 1..Len(t) /\ w[j] \in Nat /\ w[i] \in Nat /\ m \in Nat
           /\ w[j] + m - 1 \in w[i]..w[Len(t) + 1] - 1
<1>1. PICK n \in Nat : n = Len(t)
  OBVIOUS
<1>2. j \in 1..n /\ i \in 1..n + 1 /\ j \in 1..n + 1 /\ j + 1 \in 1..n + 1 /\ n + 1 \in 1..n + 1
      /\ i <= j /\ j + 1 <= n + 1
  BY <1>1
<1>3. t[j] \in Characters
  BY <1>1, <1>2
<1>4. PICK l \in Nat : l = Len(Code(t[j], f)) /\ m \in 1..l
  BY <1>3, CodeIs
<1>5. w[j + 1] = w[j] + l
  BY <1>1, <1>2, <1>4 DEF Spaced
<1>6. w[i] <= w[j] /\ w[i] \in Nat /\ w[j] \in Nat
  BY <1>1, <1>2, SpacedIs
<1>7. w[j + 1] <= w[n + 1] /\ w[j + 1] \in Nat /\ w[n + 1] \in Nat
  BY <1>1, <1>2, SpacedIs
<1>8. \A a, b, c, d \in Nat : a <= b /\ b + l <= d => b + m - 1 \in a..d - 1 /\ m \in Nat
  BY <1>4
<1> QED
  BY <1>1, <1>2, <1>4, <1>5, <1>6, <1>7, <1>8

-----------------------------------------------------------------------------

\* What lies in a part of the buffer that stays as it was.
LEMMA KeyStays ==
    ASSUME NEW q, NEW q2, NEW key \in Seq(Plain), NEW s \in Nat, KeyAt(q, key, s),
           \A p \in s..s + Len(key) : q2[p] = q[p]
    PROVE  KeyAt(q2, key, s)
<1>1. PICK n \in Nat : n = Len(key)
  OBVIOUS
<1>2. s + n \in s..s + n /\ \A j \in 1..n : s + j - 1 \in s..s + n
  OBVIOUS
<1> QED
  BY <1>1, <1>2 DEF KeyAt

LEMMA CodesStay ==
    ASSUME NEW f \in BOOLEAN, NEW t \in Seq(Characters), NEW w \in Seq(Nat), Spaced(f, t, w),
           NEW q, NEW q2, NEW i \in Nat, i > 0, Coded(f, q, t, w, i),
           \A p \in w[i]..w[Len(t) + 1] - 1 : q2[p] = q[p]
    PROVE  Coded(f, q2, t, w, i)
<1>1. ASSUME NEW j \in i..Len(t), NEW m \in 1..Len(Code(t[j], f))
      PROVE  q2[w[j] + m - 1] = Code(t[j], f)[m]
  <2>1. w[j] + m - 1 \in w[i]..w[Len(t) + 1] - 1
    BY CodePlace
  <2>2. q[w[j] + m - 1] = Code(t[j], f)[m]
    BY DEF Coded
  <2> QED
    BY <2>1, <2>2
<1> QED
  BY <1>1 DEF Coded

LEMMA PlainStays ==
    ASSUME NEW q, NEW q2, NEW t, NEW v \in Nat, NEW i \in Nat, Plainly(q, t, v, i),
           \A p \in v..v + i - 2 : q2[p] = q[p]
    PROVE  Plainly(q2, t, v, i)
<1>1. \A j \in 1..i - 1 : v + j - 1 \in v..v + i - 2
  OBVIOUS
<1> QED
  BY <1>1 DEF Plainly

\* The place strcspn finds.
LEMMA SpanIs ==
    ASSUME NEW s, Len(s) \in Nat, NEW p \in Nat, NEW chars, NEW e \in p..Len(s),
           s[e] \in chars \cup {Nul}, \A r \in p..e - 1 : s[r] \notin chars \cup {Nul}
    PROVE  Span(s, p, chars) = e
<1> DEFINE Found(x) == s[x] \in chars \cup {Nul} /\ \A r \in p..(x - 1) : s[r] \notin chars \cup {Nul}
<1>1. Found(e)
  OBVIOUS
<1>2. ASSUME NEW x \in p..Len(s), Found(x) PROVE x = e
  <2>1. x \in Nat /\ e \in Nat /\ x >= p /\ e >= p
    OBVIOUS
  <2>2. x < e => x \in p..e - 1
    BY <2>1
  <2>3. e < x => e \in p..x - 1
    BY <2>1
  <2> QED
    BY <1>1, <1>2, <2>1, <2>2, <2>3
<1>3. Span(s, p, chars) = CHOOSE x \in p..Len(s) : Found(x)
  BY DEF Span
<1> HIDE DEF Found
<1> QED
  BY <1>1, <1>2, <1>3

LEMMA KeysAre ==
    ASSUME NEW k \in 1..Len(Keys)
    PROVE  Keys[k] \in Seq(Plain) /\ k \in DOMAIN Keys /\ k \in Nat /\ Len(Keys) \in Nat
<1>1. Keys \in Seq(Seq(Plain))
  BY QueryStringAssumption
<1>2. Len(Keys) \in Nat /\ DOMAIN Keys = 1..Len(Keys)
  BY <1>1
<1>3. k \in Nat
  BY <1>2
<1>4. Keys[k] \in Seq(Plain)
  BY <1>1
<1> QED
  BY <1>2, <1>3, <1>4

\* Where a pair lies: its key, its value and what is behind it.
LEMMA PairIs ==
    ASSUME QueryTypeOK, Layout, NEW k \in 1..entry
    PROVE  /\ k \in Nat /\ k \in DOMAIN Keys /\ k \in 1..Len(Keys) /\ Keys[k] \in Seq(Plain)
           /\ typed[k] \in Seq(Characters) /\ places[k] \in Seq(Nat) /\ form \in BOOLEAN
           /\ Spaced(form, typed[k], places[k])
           /\ Begin(k) \in Nat /\ Begin(k) >= 2 /\ places[k][1] \in Nat
           /\ places[k][1] = Begin(k) + Len(Keys[k]) + 1
           /\ End(k) \in Nat /\ places[k][1] + Len(typed[k]) <= End(k) /\ End(k) <= Len(qs) + 1
           /\ Begin(k) < End(k)
<1>1. entry \in 1..Len(Keys) /\ Len(Keys) \in Nat
  <2>1. Keys \in Seq(Seq(Plain))
    BY QueryStringAssumption
  <2>2. Len(Keys) \in Nat /\ DOMAIN Keys = 1..Len(Keys)
    BY <2>1
  <2>3. entry \in DOMAIN Keys
    BY DEF QueryTypeOK
  <2> QED
    BY <2>2, <2>3
<1>2. k \in 1..Len(Keys)
  BY <1>1
<1>3. Keys[k] \in Seq(Plain) /\ k \in DOMAIN Keys /\ k \in Nat
  BY <1>2, KeysAre
<1>4. typed[k] \in Seq(Characters) /\ places[k] \in Seq(Nat) /\ form \in BOOLEAN
  BY <1>3 DEF QueryTypeOK
<1>5. Spaced(form, typed[k], places[k]) /\ Begin(k) >= 2 /\ End(k) <= Len(qs) + 1
  BY DEF Layout
<1>6. PICK n \in Nat : n = Len(typed[k])
  BY <1>4
<1>7. 1 \in 1..n + 1 /\ n + 1 \in 1..n + 1 /\ 1 <= n + 1
  BY <1>6
<1>8. PICK v \in Nat, e \in Nat : v = places[k][1] /\ e = places[k][n + 1] /\ v + (n + 1) <= e + 1
  <2>1. PICK t, w : t = typed[k] /\ w = places[k]
    OBVIOUS
  <2>2. PICK i, j : i = 1 /\ j = n + 1
    OBVIOUS
  <2>3. t \in Seq(Characters) /\ w \in Seq(Nat) /\ Spaced(form, t, w)
    BY <1>4, <1>5, <2>1
  <2>4. i \in 1..Len(t) + 1 /\ j \in 1..Len(t) + 1 /\ i <= j
    BY <1>6, <1>7, <2>1, <2>2
  <2>5. w[i] \in Nat /\ w[j] \in Nat /\ w[1] + j <= w[j] + 1
    BY <1>4, <2>3, <2>4, SpacedIs
  <2> QED
    BY <2>1, <2>2, <2>5
<1>9. PICK l \in Nat : l = Len(Keys[k])
  BY <1>3
<1>10. Begin(k) = v - l - 1 /\ End(k) = e
  BY <1>6, <1>8, <1>9 DEF End, Begin
<1>11. Begin(k) \in Nat /\ v = Begin(k) + l + 1 /\ v + n <= e
  <2>1. \A b \in Int : b = v - l - 1 /\ b >= 2 => b \in Nat /\ v = b + l + 1
    OBVIOUS
  <2>2. v - l - 1 \in Int /\ Begin(k) >= 2
    BY <1>5
  <2>3. v + n <= e
    BY <1>6, <1>8
  <2> QED
    BY <1>10, <2>1, <2>2, <2>3
<1>12. Begin(k) < End(k)
  <2>1. \A b \in Nat : v = b + l + 1 /\ v + n <= e => b < e
    OBVIOUS
  <2> QED
    BY <1>10, <1>11, <2>1
<1> QED
  BY <1>2, <1>3, <1>4, <1>5, <1>6, <1>8, <1>9, <1>10, <1>11, <1>12

\* A pair of which the buffer keeps all but what is behind it.
LEMMA SentStays ==
    ASSUME QueryTypeOK, Layout, NEW k \in 1..entry, NEW q2,
           \A p \in Begin(k)..End(k) - 1 : q2[p] = qs[p]
    PROVE  /\ KeyAt(qs, Keys[k], Begin(k)) => KeyAt(q2, Keys[k], Begin(k))
           /\ Coded(form, qs, typed[k], places[k], 1) => Coded(form, q2, typed[k], places[k], 1)
           /\ NoStops(qs, places[k][1], End(k) - 1) => NoStops(q2, places[k][1], End(k) - 1)
<1>1. PICK b \in Nat, v \in Nat, e \in Nat, l \in Nat, n \in Nat :
        /\ b = Begin(k) /\ v = places[k][1] /\ e = End(k) /\ l = Len(Keys[k]) /\ n = Len(typed[k])
        /\ v = b + l + 1 /\ v + n <= e
  <2>1. Keys[k] \in Seq(Plain) /\ typed[k] \in Seq(Characters)
    BY PairIs
  <2>2. Len(Keys[k]) \in Nat /\ Len(typed[k]) \in Nat
    BY <2>1
  <2>3. /\ Begin(k) \in Nat /\ places[k][1] \in Nat /\ End(k) \in Nat
        /\ places[k][1] = Begin(k) + Len(Keys[k]) + 1
        /\ places[k][1] + Len(typed[k]) <= End(k)
    BY PairIs
  <2> QED
    BY <2>2, <2>3
<1>2. v = b + l + 1 /\ v + n <= e
  BY <1>1
<1>3. (\A p \in b..b + l : p \in b..e - 1) /\ (\A p \in v..e - 1 : p \in b..e - 1)
  BY <1>2
<1>4. KeyAt(qs, Keys[k], Begin(k)) => KeyAt(q2, Keys[k], Begin(k))
  <2>1. \A p \in b..b + l : q2[p] = qs[p]
    BY <1>1, <1>3
  <2> QED
    BY <1>1, <2>1, PairIs, KeyStays
<1>5. Coded(form, qs, typed[k], places[k], 1) => Coded(form, q2, typed[k], places[k], 1)
  <2>1. \A p \in places[k][1]..places[k][Len(typed[k]) + 1] - 1 : q2[p] = qs[p]
    BY <1>1, <1>3 DEF End
  <2>2. /\ typed[k] \in Seq(Characters) /\ places[k] \in Seq(Nat) /\ form \in BOOLEAN
        /\ Spaced(form, typed[k], places[k])
    BY PairIs
  <2>3. PICK i \in Nat : i = 1 /\ i > 0
    OBVIOUS
  <2>4. Coded(form, qs, typed[k], places[k], i) => Coded(form, q2, typed[k], places[k], i)
    BY <2>1, <2>2, <2>3, CodesStay
  <2> QED
    BY <2>3, <2>4
<1>6. NoStops(qs, places[k][1], End(k) - 1) => NoStops(q2, places[k][1], End(k) - 1)
  BY <1>1, <1>3 DEF NoStops
<1> QED
  BY <1>4, <1>5, <1>6

\* A pair of which the buffer keeps everything.
LEMMA PairStays ==
    ASSUME QueryTypeOK, Layout, NEW k \in 1..entry, NEW q2,
           \A p \in Begin(k)..End(k) : q2[p] = qs[p]
    PROVE  /\ KeyAt(qs, Keys[k], Begin(k)) => KeyAt(q2, Keys[k], Begin(k))
           /\ Coded(form, qs, typed[k], places[k], 1) => Coded(form, q2, typed[k], places[k], 1)
           /\ NoStops(qs, places[k][1], End(k) - 1) => NoStops(q2, places[k][1], End(k) - 1)
           /\ q2[End(k)] = qs[End(k)]
           /\ q2[places[k][1] + Len(typed[k])] = qs[places[k][1] + Len(typed[k])]
           /\ Plainly(qs, typed[k], places[k][1], Len(typed[k]) + 1)
                => Plainly(q2, typed[k], places[k][1], Len(typed[k]) + 1)
<1>1. PICK b \in Nat, v \in Nat, e \in Nat, l \in Nat, n \in Nat :
        /\ b = Begin(k) /\ v = places[k][1] /\ e = End(k) /\ l = Len(Keys[k]) /\ n = Len(typed[k])
        /\ v = b + l + 1 /\ v + n <= e
  <2>1. Keys[k] \in Seq(Plain) /\ typed[k] \in Seq(Characters)
    BY PairIs
  <2>2. Len(Keys[k]) \in Nat /\ Len(typed[k]) \in Nat
    BY <2>1
  <2>3. /\ Begin(k) \in Nat /\ places[k][1] \in Nat /\ End(k) \in Nat
        /\ places[k][1] = Begin(k) + Len(Keys[k]) + 1
        /\ places[k][1] + Len(typed[k]) <= End(k)
    BY PairIs
  <2> QED
    BY <2>2, <2>3
<1>2. /\ \A p \in b..e - 1 : p \in b..e
      /\ e \in b..e /\ v + n \in b..e
      /\ \A p \in v..v + (n + 1) - 2 : p \in b..e
  <2>1. v = b + l + 1 /\ v + n <= e
    BY <1>1
  <2> QED
    BY <2>1
<1>3. /\ \A p \in b..e - 1 : q2[p] = qs[p]
      /\ q2[e] = qs[e] /\ q2[v + n] = qs[v + n]
      /\ \A p \in v..v + (n + 1) - 2 : q2[p] = qs[p]
  BY <1>1, <1>2
<1>4. /\ KeyAt(qs, Keys[k], Begin(k)) => KeyAt(q2, Keys[k], Begin(k))
      /\ Coded(form, qs, typed[k], places[k], 1) => Coded(form, q2, typed[k], places[k], 1)
      /\ NoStops(qs, places[k][1], End(k) - 1) => NoStops(q2, places[k][1], End(k) - 1)
  BY <1>1, <1>3, SentStays
<1>5. Plainly(qs, typed[k], v, n + 1) => Plainly(q2, typed[k], v, n + 1)
  <2>1. n + 1 \in Nat
    OBVIOUS
  <2> QED
    BY <1>3, <2>1, PlainStays
<1> QED
  BY <1>1, <1>3, <1>4, <1>5

\* One more character, whose code has l signs.
Grown(f, t, w, c, l, t2, w2) ==
    /\ t2 \in Seq(Characters) /\ w2 \in Seq(Nat) /\ Len(t2) = Len(t) + 1
    /\ Spaced(f, t2, w2)
    /\ w2[1] = w[1] /\ w2[Len(t) + 1] = w[Len(t) + 1]
    /\ w2[Len(t2) + 1] = w[Len(t) + 1] + l /\ t2[Len(t2)] = c
    /\ \A i \in 1..Len(t) : t2[i] = t[i] /\ w2[i] = w[i]

LEMMA SpacedGrows ==
    ASSUME NEW f \in BOOLEAN, NEW t \in Seq(Characters), NEW w \in Seq(Nat), Spaced(f, t, w),
           NEW c \in Characters, NEW l \in Nat, l = Len(Code(c, f)), l > 0,
           NEW t2, t2 = Append(t, c), NEW w2, w2 = Append(w, w[Len(t) + 1] + l)
    PROVE  Grown(f, t, w, c, l, t2, w2)
<1>1. PICK n \in Nat : n = Len(t) /\ Len(w) = n + 1
  BY DEF Spaced
<1>2. PICK e \in Nat : e = w[n + 1]
  <2>1. n + 1 \in 1..n + 1
    OBVIOUS
  <2> QED
    BY <1>1, <2>1
<1>3. /\ t2 \in Seq(Characters) /\ Len(t2) = n + 1 /\ t2[n + 1] = c
      /\ \A i \in 1..n : t2[i] = t[i]
  BY <1>1
<1>4. /\ w2 \in Seq(Nat) /\ Len(w2) = n + 2 /\ w2[n + 2] = e + l
      /\ \A i \in 1..n + 1 : w2[i] = w[i]
  BY <1>1, <1>2
<1>5. 1 \in 1..n + 1 /\ n + 1 \in 1..n + 1 /\ w2[1] = w[1] /\ w2[n + 1] = e
  BY <1>2, <1>4
<1>6. ASSUME NEW i \in 1..n + 1 PROVE w2[i + 1] = w2[i] + Len(Code(t2[i], f))
  <2>1. CASE i = n + 1
    BY <1>3, <1>4, <1>5, <2>1
  <2>2. CASE i # n + 1
    <3>1. i \in 1..n /\ i + 1 \in 1..n + 1 /\ i \in 1..n + 1
      BY <2>2
    <3>2. w[i + 1] = w[i] + Len(Code(t[i], f))
      BY <1>1, <3>1 DEF Spaced
    <3> QED
      BY <1>3, <1>4, <3>1, <3>2
  <2> QED
    BY <2>1, <2>2
<1>7. \A i \in 1..n + 1 : w[i] \in Nat /\ w[i] <= e /\ w[1] + i <= w[i] + 1 /\ w[1] \in Nat
  <2>1. ASSUME NEW i \in 1..n + 1
        PROVE  w[i] \in Nat /\ w[i] <= e /\ w[1] + i <= w[i] + 1 /\ w[1] \in Nat
    <3>1. PICK j : j = n + 1
      OBVIOUS
    <3>2. i \in 1..Len(t) + 1 /\ j \in 1..Len(t) + 1 /\ i <= j
      BY <1>1, <3>1
    <3>3. w[i] \in Nat /\ w[i] <= w[j]
      BY <3>2, SpacedIs
    <3>4. w[1] + i <= w[i] + 1 /\ w[1] \in Nat
      <4>1. i <= i
        BY <1>1
      <4> QED
        BY <3>2, <4>1, SpacedIs
    <3> QED
      BY <1>2, <3>1, <3>3, <3>4
  <2> QED
    BY <2>1
<1>8. ASSUME NEW i \in 1..n + 2, NEW j \in 1..n + 2, i < j PROVE w2[i] < w2[j]
  <2>1. i \in 1..n + 1
    BY <1>8
  <2>2. CASE j = n + 2
    BY <1>4, <1>7, <2>1, <2>2, SMTT(30)
  <2>3. CASE j # n + 2
    <3>1. j \in 1..n + 1
      BY <2>3
    <3>2. w[i] < w[j]
      BY <1>1, <1>8, <2>1, <3>1 DEF Spaced
    <3> QED
      BY <1>4, <2>1, <3>1, <3>2
  <2> QED
    BY <2>2, <2>3
<1>9. ASSUME NEW i \in 1..n + 2 PROVE w2[1] + i <= w2[i] + 1
  <2>1. CASE i = n + 2
    <3>1. w[1] + (n + 1) <= e + 1 /\ w[1] \in Nat
      BY <1>2, <1>5, <1>7
    <3>2. \A a \in Nat : a + (n + 1) <= e + 1 => a + (n + 2) <= (e + l) + 1
      OBVIOUS
    <3> QED
      BY <1>4, <1>5, <2>1, <3>1, <3>2
  <2>2. CASE i # n + 2
    <3>1. i \in 1..n + 1
      BY <2>2
    <3> QED
      BY <1>4, <1>5, <1>7, <3>1
  <2> QED
    BY <2>1, <2>2
<1>10. (n + 1) + 1 = n + 2 /\ n + 1 \in Nat
  OBVIOUS
<1>11. Spaced(f, t2, w2)
  BY <1>3, <1>4, <1>6, <1>8, <1>9, <1>10 DEF Spaced
<1>12. \A i \in 1..n : i \in 1..n + 1
  OBVIOUS
<1> QED
  BY <1>1, <1>2, <1>3, <1>4, <1>5, <1>10, <1>11, <1>12 DEF Grown

\* What a pair that has been sent consists of.
LEMMA PairSigns ==
    ASSUME QueryTypeOK, Layout, NEW k \in 1..entry, PairRight(k), k > decoded, ~InHand(k)
    PROVE  /\ \A p \in Begin(k)..End(k) - 1 : qs[p] \notin {"&", "#", Nul}
           /\ \A p \in Begin(k)..Begin(k) + Len(Keys[k]) - 1 : qs[p] \notin Stops
           /\ qs[Begin(k) + Len(Keys[k])] = "="
           /\ Begin(k) + Len(Keys[k]) \in Nat /\ Begin(k) + Len(Keys[k]) <= End(k) - 1
<1>1. /\ KeyAt(qs, Keys[k], Begin(k)) /\ NoStops(qs, places[k][1], End(k) - 1)
      /\ Keys[k] \in Seq(Plain)
  BY PairIs DEF PairRight
<1>2. PICK b \in Nat, v \in Nat, e \in Nat, l \in Nat, n \in Nat :
        /\ b = Begin(k) /\ v = places[k][1] /\ e = End(k) /\ l = Len(Keys[k]) /\ n = Len(typed[k])
        /\ v = b + l + 1 /\ v + n <= e
  <2>1. Keys[k] \in Seq(Plain) /\ typed[k] \in Seq(Characters)
    BY PairIs
  <2>2. Len(Keys[k]) \in Nat /\ Len(typed[k]) \in Nat
    BY <2>1
  <2>3. /\ Begin(k) \in Nat /\ places[k][1] \in Nat /\ End(k) \in Nat
        /\ places[k][1] = Begin(k) + Len(Keys[k]) + 1
        /\ places[k][1] + Len(typed[k]) <= End(k)
    BY PairIs
  <2> QED
    BY <2>2, <2>3
<1>3. v = b + l + 1 /\ v + n <= e
  BY <1>2
<1>4. qs[b + l] = "="
  BY <1>1, <1>2 DEF KeyAt
<1>5. ASSUME NEW p \in b..b + l - 1 PROVE qs[p] \notin Stops
  <2>1. PICK j \in 1..l : p = b + j - 1
    <3>1. p - b + 1 \in 1..l /\ p = b + (p - b + 1) - 1
      OBVIOUS
    <3> QED
      BY <3>1
  <2>2. qs[p] = Keys[k][j]
    BY <1>1, <1>2, <2>1 DEF KeyAt
  <2>3. Keys[k][j] \in Plain
    BY <1>1, <1>2
  <2> QED
    BY <2>2, <2>3, SignsAre
<1>6. \A p \in v..e - 1 : qs[p] \notin Stops
  BY <1>1, <1>2 DEF NoStops
<1>7. ASSUME NEW p \in b..e - 1 PROVE qs[p] \notin {"&", "#", Nul}
  <2>1. p \in b..b + l - 1 \/ p = b + l \/ p \in v..e - 1
    BY <1>3
  <2> QED
    BY <1>4, <1>5, <1>6, <2>1 DEF Stops, Nul
<1>8. b + l <= e - 1 /\ b + l \in Nat
  BY <1>3
<1> QED
  BY <1>2, <1>4, <1>5, <1>7, <1>8

\* A pair that has been sent lies in the buffer.
LEMMA PairInBuffer ==
    ASSUME QueryTypeOK, Layout, stage # "typing", NEW k \in 1..entry
    PROVE  End(k) <= Len(qs) /\ Len(qs) \in Nat
<1>1. Len(qs) \in Nat /\ entry \in Nat /\ k \in Nat
  <2>1. Len(qs) \in Nat /\ entry \in DOMAIN Keys
    BY DEF QueryTypeOK
  <2>2. Keys \in Seq(Seq(Plain))
    BY QueryStringAssumption
  <2>3. k \in Nat
    BY PairIs
  <2> QED
    BY <2>1, <2>2, <2>3
<1>2. CASE k = entry
  BY <1>1, <1>2 DEF Layout
<1>3. CASE k # entry
  <2>1. entry \in 1..entry /\ k < entry
    BY <1>1, <1>3
  <2>2. End(k) < Begin(entry) /\ End(entry) = Len(qs)
    BY <2>1 DEF Layout
  <2>3. Begin(entry) \in Nat /\ End(entry) \in Nat /\ End(k) \in Nat /\ Begin(entry) < End(entry)
    BY <2>1, PairIs
  <2> QED
    BY <1>1, <2>2, <2>3
<1> QED
  BY <1>1, <1>2, <1>3

\* The end of a pair that has been sent, and the end of its key.
LEMMA PairSpan ==
    ASSUME QueryTypeOK, Layout, stage # "typing", NEW k \in 1..entry, PairRight(k), k > decoded, ~InHand(k)
    PROVE  /\ Span(qs, Begin(k), {"&"}) = End(k)
           /\ qs[End(k)] = Behind(k) /\ End(k) \in Begin(k)..Len(qs)
           /\ \A chars : "=" \in chars /\ chars \subseteq {"=", "&", "#"} =>
                Span(qs, Begin(k), chars) = Begin(k) + Len(Keys[k])
<1>1. PICK b \in Nat, e \in Nat, l \in Nat, m \in Nat :
        b = Begin(k) /\ e = End(k) /\ l = Len(Keys[k]) /\ m = Len(qs)
  <2>1. Keys[k] \in Seq(Plain) /\ Begin(k) \in Nat /\ End(k) \in Nat
    BY PairIs
  <2>2. Len(Keys[k]) \in Nat /\ Len(qs) \in Nat
    BY <2>1 DEF QueryTypeOK
  <2> QED
    BY <2>1, <2>2
<1>2. e <= m
  BY <1>1, PairInBuffer
<1>3. /\ \A p \in b..e - 1 : qs[p] \notin {"&", "#", Nul}
      /\ \A p \in b..b + l - 1 : qs[p] \notin Stops
      /\ qs[b + l] = "=" /\ b + l <= e - 1
  BY <1>1, PairSigns
<1>4. qs[e] = Behind(k) /\ Behind(k) \in {"&", Nul}
  BY <1>1 DEF PairRight, Behind
<1>5. Span(qs, b, {"&"}) = e
  <2>1. e \in b..m
    BY <1>2, <1>3
  <2>2. qs[e] \in {"&"} \cup {Nul} /\ \A r \in b..e - 1 : qs[r] \notin {"&"} \cup {Nul}
    BY <1>3, <1>4
  <2> QED
    BY <1>1, <2>1, <2>2, SpanIs
<1>6. ASSUME NEW chars, "=" \in chars, chars \subseteq {"=", "&", "#"}
      PROVE  Span(qs, b, chars) = b + l
  <2>1. b + l \in b..m
    BY <1>2, <1>3
  <2>2. qs[b + l] \in chars \cup {Nul} /\ \A r \in b..(b + l) - 1 : qs[r] \notin chars \cup {Nul}
    <3>1. chars \cup {Nul} \subseteq Stops
      BY <1>6 DEF Stops
    <3>2. qs[b + l] \in chars
      BY <1>3, <1>6
    <3>3. ASSUME NEW r \in b..(b + l) - 1 PROVE qs[r] \notin Stops
      <4>1. r \in b..b + l - 1
        OBVIOUS
      <4> QED
        BY <1>3, <4>1
    <3> QED
      BY <3>1, <3>2, <3>3
  <2>3. PICK x \in b..Len(qs) : x = b + l
    BY <1>1, <2>1
  <2>4. Span(qs, b, chars) = x
    BY <1>1, <2>2, <2>3, SpanIs
  <2> QED
    BY <2>3, <2>4
<1>7. e \in b..m
  BY <1>2, <1>3
<1> QED
  BY <1>1, <1>4, <1>5, <1>6, <1>7

\* Places stay where the text and the places of its characters do.
LEMMA Unmoved ==
    ASSUME UNCHANGED <<typed, form, places, entry>>
    PROVE  /\ entry' = entry /\ typed' = typed /\ places' = places /\ form' = form
           /\ \A k : Begin(k)' = Begin(k) /\ End(k)' = End(k) /\ Behind(k)' = Behind(k)
  BY DEF Begin, End, Behind

LEMMA LayoutStays ==
    ASSUME Layout, UNCHANGED <<typed, form, places, entry>>, Len(qs') = Len(qs),
           stage # "typing", stage' # "typing"
    PROVE  Layout'
<1>1. /\ entry' = entry /\ typed' = typed /\ places' = places /\ form' = form
      /\ \A k : Begin(k)' = Begin(k) /\ End(k)' = End(k)
  BY Unmoved
<1>2. /\ \A k \in 1..entry' : /\ Spaced(form, typed[k], places[k])'
                              /\ Begin(k)' >= 2 /\ End(k)' <= Len(qs)' + 1
      /\ Begin(1)' = 2
      /\ \A k \in 1..entry' - 1 : Begin(k + 1)' = End(k)' + 1
      /\ \A k, l \in 1..entry' : k < l => End(k)' < Begin(l)'
      /\ \A k \in entry' + 1..Len(Keys) : typed'[k] = <<>>
      /\ entry' = Len(Keys) /\ End(entry)' = Len(qs)'
  BY <1>1 DEF Layout, Spaced
<1> QED
  BY <1>2 DEF Layout

\* A pair that is not in hand, before a step and after it.
LEMMA PairKept ==
    ASSUME NEW k, PairRight(k), UNCHANGED <<typed, form, places, entry, qs, decoded>>,
           stage # "typing" \/ stage' = "typing", ~InHand(k), ~InHand(k)'
    PROVE  PairRight(k)'
<1>1. /\ entry' = entry /\ typed' = typed /\ places' = places /\ form' = form
      /\ qs' = qs /\ decoded' = decoded
      /\ Begin(k)' = Begin(k) /\ End(k)' = End(k) /\ Behind(k)' = Behind(k)
  BY Unmoved
<1>2. /\ KeyAt(qs', Keys[k], Begin(k)')
      /\ k <= decoded' => /\ Plainly(qs', typed'[k], places'[k][1], Len(typed'[k]) + 1)
                          /\ qs'[places'[k][1] + Len(typed'[k])] = Nul
      /\ k > decoded' =>
            /\ k < entry' \/ stage' # "typing" => qs'[End(k)'] = Behind(k)'
            /\ Coded(form', qs', typed'[k], places'[k], 1)
            /\ NoStops(qs', places'[k][1], End(k)' - 1)
  BY <1>1 DEF PairRight
<1> QED
  BY <1>2 DEF PairRight

LEMMA FindPairIs ==
    ASSUME QueryInv, FindPair
    PROVE  QueryInv'
<1>1. QueryTypeOK /\ Layout /\ Parsing /\ Contents
  BY DEF QueryInv
<1>2. /\ stage = "pairs" /\ qs_kv' = Append(qs_kv, from)
      /\ UNCHANGED <<typed, form, qs, entry, decoded, to, places>>
  BY DEF FindPair
<1>3. PICK k \in Nat, n \in Nat : k = Len(qs_kv) + 1 /\ n = Len(Keys) /\ n <= MaxPairs /\ MaxPairs \in Nat
  <2>1. Keys \in Seq(Seq(Plain)) /\ Len(Keys) <= MaxPairs
    BY QueryStringAssumption
  <2>2. Len(Keys) \in Nat /\ Len(qs_kv) \in Nat
    BY <1>1, <2>1 DEF QueryTypeOK
  <2> QED
    BY <2>1, <2>2 DEF MaxPairs
<1>4. k <= n /\ from = Begin(k) /\ entry = n /\ k \in 1..entry /\ decoded = 0
      /\ \A l \in 1..k - 1 : qs_kv[l] = Begin(l)
  <2>1. Len(qs_kv) < Len(Keys) /\ from = Begin(Len(qs_kv) + 1) /\ entry = Len(Keys) /\ decoded = 0
    BY <1>1, <1>2 DEF Parsing, Layout
  <2>2. Len(qs_kv) = k - 1 /\ k >= 1
    BY <1>1, <1>3 DEF QueryTypeOK
  <2>3. k <= n /\ k \in 1..n
    BY <1>3, <2>1, <2>2
  <2>4. \A l \in 1..k - 1 : qs_kv[l] = Begin(l)
    BY <1>1, <2>2 DEF Parsing
  <2> QED
    BY <1>3, <2>1, <2>3, <2>4
<1>5. PairRight(k) /\ ~InHand(k) /\ k > decoded
  BY <1>1, <1>2, <1>4 DEF Contents, InHand
<1>6. /\ Span(qs, from, {"&"}) = End(k) /\ qs[End(k)] = Behind(k)
      /\ End(k) \in Begin(k)..Len(qs) /\ Begin(k) \in Nat /\ Begin(k) >= 2
  BY <1>1, <1>2, <1>4, <1>5, PairSpan, PairIs
<1>7. /\ Len(qs_kv') = k /\ qs_kv'[k] = Begin(k)
      /\ \A l \in 1..k : qs_kv'[l] = Begin(l)
      /\ qs_kv' \in Seq(DOMAIN qs)
  <2>1. qs_kv \in Seq(DOMAIN qs) /\ qs \in Seq(Characters \cup {Nul})
    BY <1>1 DEF QueryTypeOK
  <2>2. Len(qs_kv) = k - 1 /\ Len(qs) \in Nat /\ DOMAIN qs = 1..Len(qs)
    BY <1>3, <2>1
  <2>3. from \in DOMAIN qs
    BY <1>4, <1>6, <2>2
  <2>4. Len(qs_kv') = k /\ qs_kv'[k] = from /\ qs_kv' \in Seq(DOMAIN qs)
    BY <1>2, <2>1, <2>2, <2>3
  <2>5. \A l \in 1..k - 1 : qs_kv'[l] = qs_kv[l]
    BY <1>2, <2>1, <2>2
  <2>6. \A l \in 1..k : l = k \/ l \in 1..k - 1
    OBVIOUS
  <2> QED
    BY <1>4, <2>4, <2>5, <2>6
<1>8. (stage' = "values" /\ from' = from /\ k = n) \/ (stage' = "pairs" /\ from' = Begin(k + 1) /\ k < n)
  <2>1. IF qs[End(k)] = Nul \/ k = MaxPairs
        THEN stage' = "values" /\ UNCHANGED from
        ELSE from' = End(k) + 1 /\ UNCHANGED stage
    BY <1>6, <1>7 DEF FindPair
  <2>2. CASE k = n
    <3>1. Behind(k) = Nul
      BY <1>3, <2>2 DEF Behind
    <3> QED
      BY <1>6, <2>1, <2>2, <3>1
  <2>3. CASE k # n
    <3>1. k < n /\ k # MaxPairs /\ k \in 1..entry - 1
      BY <1>3, <1>4, <2>3
    <3>2. Behind(k) # Nul
      BY <1>3, <3>1 DEF Behind, Nul
    <3>3. Begin(k + 1) = End(k) + 1
      BY <1>1, <3>1 DEF Layout
    <3> QED
      BY <1>2, <1>6, <2>1, <3>1, <3>2, <3>3
  <2> QED
    BY <2>2, <2>3
<1>9. \A l : Begin(l)' = Begin(l)
  BY <1>2, Unmoved
<1>10. Layout'
  BY <1>1, <1>2, <1>8, LayoutStays
<1>11. Parsing'
  <2>1. \A l \in 1..Len(qs_kv') : qs_kv'[l] = Begin(l)'
    BY <1>7, <1>9
  <2>2. decoded' = 0 /\ qs'[1] = "?"
    BY <1>1, <1>2, <1>4 DEF Parsing
  <2>3. CASE stage' = "values" /\ k = n
    BY <1>3, <1>7, <2>1, <2>2, <2>3 DEF Parsing
  <2>4. CASE stage' = "pairs" /\ from' = Begin(k + 1) /\ k < n
    <3>1. /\ Len(qs_kv') < Len(Keys)
          /\ from' = places'[Len(qs_kv') + 1][1] - Len(Keys[Len(qs_kv') + 1]) - 1
      BY <1>2, <1>3, <1>7, <2>4 DEF Begin
    <3> QED
      BY <2>1, <2>2, <2>4, <3>1 DEF Parsing, Begin
  <2> QED
    BY <1>8, <2>3, <2>4
<1>12. Contents'
  <2>1. ASSUME NEW l \in 1..entry PROVE PairRight(l)'
    BY <1>1, <1>2, <1>8, PairKept DEF Contents, InHand
  <2> QED
    BY <1>2, <2>1 DEF Contents
<1>13. QueryTypeOK'
  <2>1. from' \in Nat
    <3>1. k < n => Begin(k + 1) \in Nat
      <4>1. k < n => k + 1 \in 1..entry
        BY <1>3, <1>4
      <4> QED
        BY <1>1, <4>1, PairIs
    <3> QED
      BY <1>4, <1>6, <1>8, <3>1
  <2>2. Len(qs_kv') <= Len(Keys) /\ decoded' \in 0..Len(qs_kv')
    BY <1>2, <1>3, <1>4, <1>7
  <2> QED
    BY <1>1, <1>2, <1>7, <1>8, <2>1, <2>2 DEF QueryTypeOK
<1> QED
  BY <1>10, <1>11, <1>12, <1>13 DEF QueryInv

LEMMA NextPairIs ==
    ASSUME QueryInv, NextPair
    PROVE  QueryInv' /\ qs' = qs
<1>1. QueryTypeOK /\ Layout /\ Parsing /\ Contents
  BY DEF QueryInv
<1>2. stage = "values" /\ UNCHANGED <<typed, form, entry, qs_kv, places>>
  BY DEF NextPair
<1>3. /\ Len(qs_kv) = Len(Keys) /\ entry = Len(Keys) /\ Len(Keys) \in Nat /\ decoded \in 0..Len(Keys)
      /\ \A k \in 1..Len(Keys) : qs_kv[k] = Begin(k)
  <2>1. Len(qs_kv) = Len(Keys) /\ entry = Len(Keys) /\ \A k \in 1..Len(qs_kv) : qs_kv[k] = Begin(k)
    BY <1>1, <1>2 DEF Parsing, Layout
  <2>2. Len(qs_kv) \in Nat /\ decoded \in 0..Len(qs_kv)
    BY <1>1 DEF QueryTypeOK
  <2> QED
    BY <2>1, <2>2
<1>4. CASE decoded = Len(qs_kv)
  <2>1. stage' = "read" /\ UNCHANGED <<qs, decoded, from, to>>
    BY <1>4 DEF NextPair
  <2>2. Layout'
    BY <1>1, <1>2, <2>1, LayoutStays
  <2>3. \A l : Begin(l)' = Begin(l)
    BY <1>2, Unmoved
  <2>4. Parsing'
    BY <1>1, <1>2, <1>3, <1>4, <2>1, <2>3 DEF Parsing
  <2>5. Contents'
    <3>1. ASSUME NEW l \in 1..entry PROVE PairRight(l)'
      BY <1>1, <1>2, <2>1, PairKept DEF Contents, InHand
    <3> QED
      BY <1>2, <3>1 DEF Contents
  <2>6. QueryTypeOK'
    BY <1>1, <1>2, <2>1 DEF QueryTypeOK
  <2> QED
    BY <2>1, <2>2, <2>4, <2>5, <2>6 DEF QueryInv
<1>5. CASE decoded # Len(qs_kv)
  <2>1. PICK k \in Nat : k = decoded + 1 /\ k \in 1..entry
    BY <1>3, <1>5
  <2>2. PairRight(k) /\ ~InHand(k) /\ k > decoded /\ qs_kv[k] = Begin(k)
    <3>1. decoded \in Nat /\ k > decoded
      BY <1>3, <2>1
    <3> QED
      BY <1>1, <1>2, <1>3, <2>1, <3>1 DEF Contents, InHand
  <2>3. PICK p : p = Span(qs, Begin(k), {"=", "&", "#"})
    OBVIOUS
  <2>4. p = Begin(k) + Len(Keys[k]) /\ qs[p] = "=" /\ p \in Nat /\ places[k][1] = p + 1
    <3>1. p = Begin(k) + Len(Keys[k])
      BY <1>1, <1>2, <2>1, <2>2, <2>3, PairSpan
    <3>2. qs[Begin(k) + Len(Keys[k])] = "=" /\ Begin(k) + Len(Keys[k]) \in Nat
      BY <1>1, <2>1, <2>2, PairSigns
    <3>3. places[k][1] = Begin(k) + Len(Keys[k]) + 1
      BY <1>1, <2>1, PairIs
    <3> QED
      BY <3>1, <3>2, <3>3
  <2>5. stage' = "value" /\ from' = p + 1 /\ to' = p + 1 /\ UNCHANGED <<qs, decoded>>
    <3>1. decoded + 1 = k
      BY <2>1
    <3>2. p = Span(qs, qs_kv[decoded + 1], {"=", "&", "#"})
      BY <2>2, <2>3, <3>1
    <3>3. qs[p] \notin {"&", Nul}
      BY <2>4 DEF Nul
    <3> QED
      BY <1>5, <3>2, <3>3 DEF NextPair
  <2>6. Layout'
    BY <1>1, <1>2, <2>5, LayoutStays
  <2>7. \A l : Begin(l)' = Begin(l) /\ End(l)' = End(l) /\ Behind(l)' = Behind(l)
    BY <1>2, Unmoved
  <2>8. Parsing'
    BY <1>1, <1>2, <1>3, <1>5, <2>5, <2>7 DEF Parsing
  <2>9. PairRight(k)'
    <3>1. /\ KeyAt(qs, Keys[k], Begin(k)) /\ qs[End(k)] = Behind(k)
          /\ Coded(form, qs, typed[k], places[k], 1)
      BY <1>2, <2>2 DEF PairRight
    <3>2. Plainly(qs, typed[k], places[k][1], 1)
      BY DEF Plainly
    <3>3. PICK i : i = 1
      OBVIOUS
    <3>4. i \in 1..Len(typed[k]) + 1
      <4>1. typed[k] \in Seq(Characters)
        BY <1>1, <2>1, PairIs
      <4> QED
        BY <3>3, <4>1
    <3>5. from' = places[k][i] /\ to' = places[k][1] + i - 1
      BY <2>4, <2>5, <3>3
    <3>6. /\ KeyAt(qs', Keys[k], Begin(k)') /\ qs'[End(k)'] = Behind(k)'
          /\ from' = places'[k][i] /\ to' = places'[k][1] + i - 1
          /\ Plainly(qs', typed'[k], places'[k][1], i) /\ Coded(form', qs', typed'[k], places'[k], i)
          /\ i \in 1..Len(typed'[k]) + 1
      BY <1>2, <2>5, <2>7, <3>1, <3>2, <3>3, <3>4, <3>5
    <3>7. InHand(k)' /\ ~(k <= decoded')
      <4>1. decoded' \in Nat /\ k = decoded' + 1
        BY <1>3, <2>1, <2>5
      <4>2. ~(k <= decoded')
        <5>1. \A d \in Nat : ~(d + 1 <= d)
          OBVIOUS
        <5> QED
          BY <4>1, <5>1
      <4> QED
        BY <2>5, <4>1, <4>2 DEF InHand
    <3> QED
      BY <3>6, <3>7 DEF PairRight
  <2>10. Contents'
    <3>1. ASSUME NEW l \in 1..entry, l # k PROVE PairRight(l)'
      <4>1. ~InHand(l) /\ ~InHand(l)'
        BY <1>2, <2>1, <2>5, <3>1 DEF InHand
      <4> QED
        BY <1>1, <1>2, <2>5, <4>1, PairKept DEF Contents
    <3> QED
      BY <1>2, <2>9, <3>1 DEF Contents
  <2>11. QueryTypeOK'
    <3>1. p + 1 \in Nat
      BY <2>4
    <3> QED
      BY <1>1, <1>2, <2>5, <3>1 DEF QueryTypeOK
  <2> QED
    BY <2>5, <2>6, <2>8, <2>10, <2>11 DEF QueryInv
<1> QED
  BY <1>4, <1>5

\* What the code of c looks like at p in the buffer q.
LooksLike(f, q, p, c) ==
    /\ q[p] \notin Stops
    /\ \/ q[p] = "+" /\ c = " " /\ Len(Code(c, f)) = 1
       \/ /\ q[p] = "%" /\ Len(Code(c, f)) = 3 /\ c \in DOMAIN Escapes
          /\ Escapes[c] = <<q[p + 1], q[p + 2]>>
       \/ q[p] = c /\ c \notin {"+", "%"} /\ Len(Code(c, f)) = 1

LEMMA CodeInBuffer ==
    ASSUME NEW q, NEW p \in Nat, NEW c \in Characters, NEW f \in BOOLEAN,
           \A m \in 1..Len(Code(c, f)) : q[p + m - 1] = Code(c, f)[m]
    PROVE  LooksLike(f, q, p, c)
<1>1. p + 1 - 1 = p /\ p + 2 - 1 = p + 1 /\ p + 3 - 1 = p + 2
  OBVIOUS
<1>2. CASE c \in Plain
  <2>1. Code(c, f) = <<c>>
    BY <1>2 DEF Code
  <2>2. Len(Code(c, f)) = 1 /\ q[p] = c
    BY <1>1, <2>1
  <2>3. c \notin Stops /\ c \notin {"+", "%"}
    BY <1>2, SignsAre
  <2> QED
    BY <2>2, <2>3 DEF LooksLike
<1>3. CASE c \notin Plain /\ c = " " /\ f
  <2>1. Code(c, f) = <<"+">>
    BY <1>3 DEF Code
  <2>2. Len(Code(c, f)) = 1 /\ q[p] = "+"
    BY <1>1, <2>1
  <2> QED
    BY <1>3, <2>2 DEF Stops, Nul, LooksLike
<1>4. CASE c \notin Plain /\ ~(c = " " /\ f)
  <2>1. Code(c, f) = <<"%", Escapes[c][1], Escapes[c][2]>>
    BY <1>4 DEF Code
  <2>2. PICK s : s = <<"%", Escapes[c][1], Escapes[c][2]>>
    OBVIOUS
  <2>3. Len(s) = 3 /\ s[1] = "%" /\ s[2] = Escapes[c][1] /\ s[3] = Escapes[c][2]
    BY <2>2
  <2>4. \A m \in 1..3 : q[p + m - 1] = s[m]
    BY <2>1, <2>2, <2>3
  <2>5. q[p + 1 - 1] = s[1] /\ q[p + 2 - 1] = s[2] /\ q[p + 3 - 1] = s[3]
    BY <2>4
  <2>6. q[p] = "%" /\ q[p + 1] = Escapes[c][1] /\ q[p + 2] = Escapes[c][2]
    BY <1>1, <2>3, <2>5
  <2>7. c \in DOMAIN Escapes /\ Escapes[c] = <<Escapes[c][1], Escapes[c][2]>>
    BY <1>4, EscapeIs
  <2>8. Len(Code(c, f)) = 3
    BY <2>1, <2>2, <2>3
  <2> QED
    BY <2>6, <2>7, <2>8 DEF Stops, Nul, LooksLike
<1> QED
  BY <1>2, <1>3, <1>4

\* A place in one pair lies in no other.
LEMMA PairsApart ==
    ASSUME QueryTypeOK, Layout, NEW k \in 1..entry, NEW l \in 1..entry, l # k,
           NEW x \in Begin(k)..End(k)
    PROVE  x \notin Begin(l)..End(l)
<1>1. /\ Begin(k) \in Nat /\ End(k) \in Nat /\ Begin(l) \in Nat /\ End(l) \in Nat
      /\ k \in Nat /\ l \in Nat
  BY PairIs
<1>2. k < l \/ l < k
  BY <1>1
<1>3. End(k) < Begin(l) \/ End(l) < Begin(k)
  BY <1>2 DEF Layout
<1>4. \A a, b, c, d \in Nat : (b < c \/ d < a) /\ x \in a..b => x \notin c..d
  OBVIOUS
<1> QED
  BY <1>1, <1>3, <1>4

\* A pair into which nothing is written, when another one is in hand before the step.
LEMMA OtherStays ==
    ASSUME QueryTypeOK, Layout, NEW k \in 1..entry, PairRight(k),
           UNCHANGED <<typed, form, places, entry>>, stage # "typing",
           \A p \in Begin(k)..End(k) : qs'[p] = qs[p],
           k <= decoded' <=> k <= decoded, k > decoded' <=> k > decoded,
           ~InHand(k), ~InHand(k)'
    PROVE  PairRight(k)'
<1>1. /\ entry' = entry /\ typed' = typed /\ places' = places /\ form' = form
      /\ Begin(k)' = Begin(k) /\ End(k)' = End(k) /\ Behind(k)' = Behind(k)
  BY Unmoved
<1>2. PICK q2 : q2 = qs'
  OBVIOUS
<1>3. /\ KeyAt(qs, Keys[k], Begin(k)) => KeyAt(q2, Keys[k], Begin(k))
      /\ Coded(form, qs, typed[k], places[k], 1) => Coded(form, q2, typed[k], places[k], 1)
      /\ NoStops(qs, places[k][1], End(k) - 1) => NoStops(q2, places[k][1], End(k) - 1)
      /\ q2[End(k)] = qs[End(k)]
      /\ q2[places[k][1] + Len(typed[k])] = qs[places[k][1] + Len(typed[k])]
      /\ Plainly(qs, typed[k], places[k][1], Len(typed[k]) + 1)
           => Plainly(q2, typed[k], places[k][1], Len(typed[k]) + 1)
  <2>1. \A p \in Begin(k)..End(k) : q2[p] = qs[p]
    BY <1>2
  <2> QED
    BY <2>1, PairStays
<1>4. /\ KeyAt(qs', Keys[k], Begin(k)')
      /\ k <= decoded' => /\ Plainly(qs', typed'[k], places'[k][1], Len(typed'[k]) + 1)
                          /\ qs'[places'[k][1] + Len(typed'[k])] = Nul
      /\ k > decoded' =>
            /\ qs'[End(k)'] = Behind(k)'
            /\ Coded(form', qs', typed'[k], places'[k], 1)
            /\ NoStops(qs', places'[k][1], End(k)' - 1)
  BY <1>1, <1>2, <1>3 DEF PairRight
<1> QED
  BY <1>4 DEF PairRight

\* One turn of qs_decode: the next character is put where it belongs, or the value ends.
LEMMA DecodeIs ==
    ASSUME QueryInv, DecodeCharacter
    PROVE  \E k \in 1..entry, i \in Nat \ {0}, n \in Nat :
        /\ k = decoded + 1 /\ n = Len(typed[k]) /\ i <= n + 1
        /\ from = places[k][i] /\ to = places[k][1] + i - 1
        /\ Plainly(qs, typed[k], places[k][1], i) /\ Coded(form, qs, typed[k], places[k], i)
        /\ \/ /\ i = n + 1 /\ qs' = [qs EXCEPT ![to] = Nul] /\ decoded' = decoded + 1
              /\ stage' = "values" /\ UNCHANGED <<from, to>>
           \/ /\ i <= n /\ qs' = [qs EXCEPT ![to] = typed[k][i]]
              /\ from' = places[k][i + 1] /\ to' = to + 1
              /\ UNCHANGED <<stage, decoded>>
<1>1. QueryTypeOK /\ Layout /\ Parsing /\ Contents
  BY DEF QueryInv
<1>2. stage = "value"
  BY DEF DecodeCharacter
<1>3. PICK k \in 1..entry : k = decoded + 1
  <2>1. decoded < Len(Keys) /\ entry = Len(Keys)
    BY <1>1, <1>2 DEF Parsing, Layout
  <2>2. decoded \in Nat /\ Len(Keys) \in Nat
    <3>1. Keys \in Seq(Seq(Plain))
      BY QueryStringAssumption
    <3> QED
      BY <1>1, <3>1 DEF QueryTypeOK
  <2> QED
    BY <2>1, <2>2
<1>4. InHand(k) /\ PairRight(k) /\ k > decoded
  <2>1. decoded \in Nat
    BY <1>1 DEF QueryTypeOK
  <2> QED
    BY <1>1, <1>2, <1>3, <2>1 DEF Contents, InHand
<1>5. PICK i \in 1..Len(typed[k]) + 1 :
        /\ from = places[k][i] /\ to = places[k][1] + i - 1
        /\ Plainly(qs, typed[k], places[k][1], i)
        /\ Coded(form, qs, typed[k], places[k], i)
  BY <1>4 DEF PairRight
<1>6. /\ typed[k] \in Seq(Characters) /\ places[k] \in Seq(Nat) /\ form \in BOOLEAN
      /\ Spaced(form, typed[k], places[k])
  BY <1>1, PairIs
<1>7. PICK n \in Nat : n = Len(typed[k])
  BY <1>6
<1>8. i \in Nat \ {0} /\ i <= n + 1
  BY <1>7
<1>9. qs[End(k)] = Behind(k)
  BY <1>2, <1>4 DEF PairRight
<1>10. CASE i = n + 1
  <2>1. from = End(k) /\ qs[from] \in Stops
    BY <1>5, <1>7, <1>9, <1>10 DEF End, Behind, Stops
  <2>2. qs' = [qs EXCEPT ![to] = Nul] /\ decoded' = decoded + 1 /\ stage' = "values" /\ UNCHANGED <<from, to>>
    BY <2>1 DEF DecodeCharacter
  <2> QED
    BY <1>3, <1>5, <1>7, <1>8, <1>10, <2>2
<1>11. CASE i # n + 1
  <2>1. i \in 1..n /\ i \in i..n
    BY <1>8, <1>11
  <2>2. PICK c \in Characters : c = typed[k][i]
    BY <1>6, <1>7, <2>1
  <2>3. PICK p \in Nat : p = from
    BY <1>1 DEF QueryTypeOK
  <2>4. \A m \in 1..Len(Code(c, form)) : qs[p + m - 1] = Code(c, form)[m]
    BY <1>5, <1>7, <2>1, <2>2, <2>3 DEF Coded
  <2>5. /\ qs[p] \notin Stops
        /\ \/ qs[p] = "+" /\ c = " " /\ Len(Code(c, form)) = 1
           \/ /\ qs[p] = "%" /\ Len(Code(c, form)) = 3 /\ c \in DOMAIN Escapes
              /\ Escapes[c] = <<qs[p + 1], qs[p + 2]>>
           \/ qs[p] = c /\ c \notin {"+", "%"} /\ Len(Code(c, form)) = 1
    <3>1. form \in BOOLEAN
      BY <1>6
    <3>2. LooksLike(form, qs, p, c)
      BY <2>4, <3>1, CodeInBuffer
    <3> QED
      BY <3>2 DEF LooksLike
  <2>6. places[k][i + 1] = p + Len(Code(c, form))
    BY <1>5, <1>6, <1>7, <2>1, <2>2, <2>3 DEF Spaced
  <2>7. qs[p] = "%" => IsEscape(p) /\ Escaped(p) = c
    <3>1. HAVE qs[p] = "%"
    <3>2. c \in DOMAIN Escapes /\ Escapes[c] = <<qs[p + 1], qs[p + 2]>>
      <4>1. c \notin {"+", "%"} => c # qs[p]
        BY <3>1
      <4> QED
        BY <2>5, <3>1, <4>1
    <3>3. \A d, e \in DOMAIN Escapes : Escapes[d] = Escapes[e] => d = e
      BY QueryStringAssumption DEF IsInjective
    <3>4. \A d \in DOMAIN Escapes : Escapes[d] = <<qs[p + 1], qs[p + 2]>> => d = c
      BY <3>2, <3>3
    <3> QED
      BY <3>2, <3>4 DEF IsEscape, Escaped
  <2>8. \/ qs[from] = "+" /\ Put(" ", 1)
        \/ qs[from] = "%" /\ Put(Escaped(from), 3)
        \/ qs[from] \notin {"+", "%"} /\ Put(qs[from], 1)
    <3>1. qs[from] \notin Stops /\ ~(qs[from] = "%" /\ ~IsEscape(from))
      BY <2>3, <2>5, <2>7
    <3> QED
      BY <3>1 DEF DecodeCharacter
  <2>9. Put(c, Len(Code(c, form)))
    <3>1. CASE qs[p] = "+"
      BY <2>3, <2>5, <2>8, <3>1
    <3>2. CASE qs[p] = "%"
      BY <2>3, <2>5, <2>7, <2>8, <3>2
    <3>3. CASE qs[p] \notin {"+", "%"}
      BY <2>3, <2>5, <2>8, <3>3
    <3> QED
      BY <3>1, <3>2, <3>3
  <2>10. /\ qs' = [qs EXCEPT ![to] = typed[k][i]] /\ from' = places[k][i + 1] /\ to' = to + 1
         /\ UNCHANGED <<stage, decoded>>
    BY <2>2, <2>3, <2>6, <2>9 DEF Put
  <2>11. i <= n
    BY <2>1
  <2> QED
    BY <1>3, <1>5, <1>7, <1>8, <2>10, <2>11
<1> QED
  BY <1>10, <1>11

LEMMA DecodeCharacterIs ==
    ASSUME QueryInv, DecodeCharacter
    PROVE  QueryInv' /\ DecodeStaysInPair
<1>1. QueryTypeOK /\ Layout /\ Parsing /\ Contents
  BY DEF QueryInv
<1>2. stage = "value" /\ UNCHANGED <<typed, form, entry, qs_kv, places>>
  BY DEF DecodeCharacter
<1>3. PICK k \in 1..entry, i \in Nat \ {0}, n \in Nat :
        /\ k = decoded + 1 /\ n = Len(typed[k]) /\ i <= n + 1
        /\ from = places[k][i] /\ to = places[k][1] + i - 1
        /\ Plainly(qs, typed[k], places[k][1], i) /\ Coded(form, qs, typed[k], places[k], i)
        /\ \/ /\ i = n + 1 /\ qs' = [qs EXCEPT ![to] = Nul] /\ decoded' = decoded + 1
              /\ stage' = "values" /\ UNCHANGED <<from, to>>
           \/ /\ i <= n /\ qs' = [qs EXCEPT ![to] = typed[k][i]]
              /\ from' = places[k][i + 1] /\ to' = to + 1
              /\ UNCHANGED <<stage, decoded>>
  BY DecodeIs
<1>4. PICK b \in Nat, v \in Nat, e \in Nat, l \in Nat, m \in Nat :
        b = Begin(k) /\ v = places[k][1] /\ e = End(k) /\ l = Len(Keys[k]) /\ m = Len(qs)
  <2>1. Keys[k] \in Seq(Plain) /\ Begin(k) \in Nat /\ places[k][1] \in Nat /\ End(k) \in Nat
    BY <1>1, PairIs
  <2>2. Len(Keys[k]) \in Nat /\ Len(qs) \in Nat
    BY <1>1, <1>2, <2>1, PairInBuffer
  <2> QED
    BY <2>1, <2>2
<1>5. v = b + l + 1 /\ v + n <= e /\ e <= m /\ b >= 2 /\ to = v + i - 1 /\ i <= n + 1
  <2>1. Begin(k) >= 2 /\ places[k][1] = Begin(k) + Len(Keys[k]) + 1 /\ places[k][1] + Len(typed[k]) <= End(k)
    BY <1>1, PairIs
  <2>2. End(k) <= Len(qs)
    BY <1>1, <1>2, PairInBuffer
  <2> QED
    BY <1>3, <1>4, <2>1, <2>2
<1>6. to \in v..e /\ to \in b..e /\ to \in 1..m /\ (i <= n => to < e) /\ to \in Nat
  <2>1. \A x \in Int : x = v + i - 1 => x \in v..e /\ x \in b..e /\ x \in 1..m /\ (i <= n => x < e) /\ x \in Nat
    BY <1>5
  <2>2. v + i - 1 \in Int
    OBVIOUS
  <2> QED
    BY <1>5, <2>1, <2>2
<1>7. typed[k] \in Seq(Characters) /\ places[k] \in Seq(Nat) /\ form \in BOOLEAN
      /\ Spaced(form, typed[k], places[k]) /\ Keys[k] \in Seq(Plain) /\ k \in Nat /\ decoded \in Nat
  <2>1. decoded \in Nat
    BY <1>1 DEF QueryTypeOK
  <2> QED
    BY <1>1, <2>1, PairIs
<1>8. PICK x \in Characters \cup {Nul} : qs' = [qs EXCEPT ![to] = x] /\ x = (IF i = n + 1 THEN Nul ELSE typed[k][i])
  <2>1. CASE i = n + 1
    <3>1. ~(i <= n)
      BY <2>1
    <3> QED
      BY <1>3, <2>1, <3>1
  <2>2. CASE i # n + 1
    <3>1. typed[k][i] \in Characters
      <4>1. i \in 1..n
        BY <1>5, <2>2
      <4> QED
        BY <1>3, <1>7, <4>1
    <3> QED
      BY <1>3, <2>2, <3>1
  <2> QED
    BY <2>1, <2>2
<1>9. /\ qs' \in Seq(Characters \cup {Nul}) /\ Len(qs') = m /\ DOMAIN qs' = DOMAIN qs /\ qs'[to] = x
      /\ \A p \in 1..m : p # to => qs'[p] = qs[p]
  <2>1. qs \in Seq(Characters \cup {Nul}) /\ DOMAIN qs = 1..m
    BY <1>1, <1>4 DEF QueryTypeOK
  <2>2. PICK q2 : q2 = qs'
    OBVIOUS
  <2>3. q2 = [qs EXCEPT ![to] = x] /\ to \in 1..Len(qs)
    BY <1>4, <1>6, <1>8, <2>2
  <2>4. q2 \in Seq(Characters \cup {Nul}) /\ Len(q2) = Len(qs) /\ DOMAIN q2 = 1..m /\ q2[to] = x
    BY <1>4, <2>1, <2>3
  <2>5. \A p \in 1..m : p # to => q2[p] = qs[p]
    BY <2>1, <2>3
  <2> QED
    BY <1>4, <2>1, <2>2, <2>4, <2>5
<1>10. \A j : Begin(j)' = Begin(j) /\ End(j)' = End(j) /\ Behind(j)' = Behind(j)
  BY <1>2, Unmoved
<1>11. stage' \in {"value", "values"} /\ decoded' \in {decoded, decoded + 1}
       /\ (stage' = "value" => decoded' = decoded)
  BY <1>2, <1>3
<1>12. ASSUME NEW j \in 1..entry, j # k
       PROVE  PairRight(j)'
  <2>1. ASSUME NEW p \in Begin(j)..End(j) PROVE qs'[p] = qs[p]
    <3>1. p # to
      BY <1>1, <1>4, <1>6, <1>12, PairsApart
    <3>2. p \in 1..m
      <4>1. Begin(j) \in Nat /\ Begin(j) >= 2 /\ End(j) \in Nat
        BY <1>1, PairIs
      <4>2. End(j) <= m
        BY <1>1, <1>2, <1>4, PairInBuffer
      <4> QED
        BY <4>1, <4>2
    <3> QED
      BY <1>9, <3>1, <3>2
  <2>2. j \in Nat
    BY <1>1, PairIs
  <2>3. (j <= decoded' <=> j <= decoded) /\ (j > decoded' <=> j > decoded)
    <3>1. \A d \in Nat : j # d + 1 => (j <= d + 1 <=> j <= d) /\ (j > d + 1 <=> j > d)
      BY <2>2
    <3> QED
      BY <1>3, <1>7, <1>11, <1>12, <3>1
  <2>4. ~InHand(j) /\ ~InHand(j)'
    BY <1>3, <1>11, <1>12 DEF InHand
  <2>5. PairRight(j)
    BY <1>1 DEF Contents
  <2> QED
    BY <1>1, <1>2, <2>1, <2>3, <2>4, <2>5, OtherStays
<1>13. PairRight(k)'
  <2>1. PairRight(k) /\ InHand(k) /\ k > decoded
    BY <1>1, <1>2, <1>3, <1>7 DEF Contents, InHand
  <2>2. PICK q2 : q2 = qs'
    OBVIOUS
  <2>3. KeyAt(q2, Keys[k], b)
    <3>1. KeyAt(qs, Keys[k], b)
      BY <1>4, <2>1 DEF PairRight
    <3>2. ASSUME NEW p \in b..b + Len(Keys[k]) PROVE q2[p] = qs[p]
      <4>1. p \in b..b + l
        BY <1>4
      <4>2. p \in 1..m /\ p # to
        BY <1>5, <1>6, <4>1
      <4> QED
        BY <1>9, <2>2, <4>2
    <3> QED
      BY <1>7, <3>1, <3>2, KeyStays
  <2>4. Plainly(q2, typed[k], v, i)
    <3>1. ASSUME NEW p \in v..v + i - 2 PROVE q2[p] = qs[p]
      <4>1. p \in 1..m /\ p # to
        BY <1>5
      <4> QED
        BY <1>9, <2>2, <4>1
    <3>2. Plainly(qs, typed[k], v, i)
      BY <1>3, <1>4
    <3> QED
      BY <3>1, <3>2, PlainStays
  <2>5. CASE i = n + 1
    <3>1. stage' = "values" /\ decoded' = decoded + 1 /\ qs'[v + n] = Nul
      <4>1. ~(i <= n) /\ v + i - 1 = v + n
        BY <2>5
      <4> QED
        BY <1>3, <1>5, <1>8, <1>9, <2>5, <4>1
    <3>2. k <= decoded' /\ ~(k > decoded')
      <4>1. k = decoded' /\ k \in Nat
        BY <1>3, <1>7, <3>1
      <4> QED
        BY <4>1
    <3>3. /\ KeyAt(qs', Keys[k], Begin(k)') /\ Plainly(qs', typed'[k], places'[k][1], Len(typed'[k]) + 1)
          /\ qs'[places'[k][1] + Len(typed'[k])] = Nul
      BY <1>2, <1>3, <1>4, <1>10, <2>2, <2>3, <2>4, <2>5, <3>1
    <3> QED
      BY <3>2, <3>3 DEF PairRight
  <2>6. CASE i # n + 1
    <3>1. i <= n /\ i \in 1..n /\ i + 1 \in 1..n + 1
      BY <1>5, <2>6
    <3>2. from' = places[k][i + 1] /\ to' = v + (i + 1) - 1 /\ stage' = "value" /\ decoded' = decoded
      <4>1. v + i - 1 + 1 = v + (i + 1) - 1
        OBVIOUS
      <4> QED
        BY <1>2, <1>3, <1>5, <2>6, <4>1
    <3>3. Plainly(q2, typed[k], v, i + 1)
      <4>1. q2[v + i - 1] = typed[k][i]
        BY <1>5, <1>8, <1>9, <2>2, <2>6
      <4>2. \A j \in 1..(i + 1) - 1 : j = i \/ j \in 1..i - 1
        OBVIOUS
      <4> QED
        BY <2>4, <4>1, <4>2 DEF Plainly
    <3>4. Coded(form, q2, typed[k], places[k], i + 1)
      <4>1. PICK w \in Nat : w = places[k][i + 1] /\ to < w
        <5>1. PICK w0 \in Nat, w \in Nat : w0 = places[k][i] /\ w = places[k][i + 1]
          <6>1. Len(places[k]) = n + 1
            BY <1>3, <1>7 DEF Spaced
          <6>2. i \in 1..Len(places[k]) /\ i + 1 \in 1..Len(places[k])
            BY <3>1, <6>1
          <6>3. places[k][i] \in Nat /\ places[k][i + 1] \in Nat
            BY <1>7, <6>2
          <6> QED
            BY <6>3
        <5>2. i \in 1..Len(typed[k]) + 1 /\ i + 1 \in 1..Len(typed[k]) + 1 /\ i < i + 1
          BY <1>3, <3>1
        <5>3. w0 < w /\ v + i <= w0 + 1
          BY <1>4, <1>7, <5>1, <5>2 DEF Spaced
        <5>4. v + i - 1 < w
          BY <5>3
        <5> QED
          BY <1>5, <5>1, <5>4
      <4>2. Coded(form, qs, typed[k], places[k], i + 1)
        <5>1. \A j \in i + 1..Len(typed[k]) : j \in i..Len(typed[k])
          BY <1>3
        <5> QED
          BY <1>3, <5>1 DEF Coded
      <4>3. ASSUME NEW p \in places[k][i + 1]..places[k][Len(typed[k]) + 1] - 1 PROVE q2[p] = qs[p]
        <5>1. p \in w..e - 1
          BY <1>4, <4>1 DEF End
        <5>2. p \in 1..m /\ p # to
          BY <1>5, <1>6, <4>1, <5>1
        <5> QED
          BY <1>9, <2>2, <5>2
      <4>4. i + 1 \in Nat /\ i + 1 > 0
        OBVIOUS
      <4> QED
        BY <1>7, <4>2, <4>3, <4>4, CodesStay
    <3>5. q2[e] = Behind(k)
      <4>1. qs[e] = Behind(k)
        BY <1>2, <1>4, <2>1 DEF PairRight
      <4>2. e \in 1..m /\ e # to
        BY <1>5, <1>6, <3>1
      <4> QED
        BY <1>9, <2>2, <4>1, <4>2
    <3>6. InHand(k)' /\ ~(k <= decoded')
      BY <1>3, <1>7, <3>2 DEF InHand
    <3>7. /\ KeyAt(qs', Keys[k], Begin(k)') /\ qs'[End(k)'] = Behind(k)'
          /\ i + 1 \in 1..Len(typed'[k]) + 1
          /\ from' = places'[k][i + 1] /\ to' = places'[k][1] + (i + 1) - 1
          /\ Plainly(qs', typed'[k], places'[k][1], i + 1)
          /\ Coded(form', qs', typed'[k], places'[k], i + 1)
      BY <1>2, <1>3, <1>4, <1>10, <2>2, <2>3, <3>1, <3>2, <3>3, <3>4, <3>5
    <3>8. PICK j : j = i + 1
      OBVIOUS
    <3> QED
      BY <3>6, <3>7, <3>8 DEF PairRight
  <2> QED
    BY <2>5, <2>6
<1>14. Contents'
  BY <1>2, <1>12, <1>13 DEF Contents
<1>15. Layout'
  BY <1>1, <1>2, <1>4, <1>9, <1>11, LayoutStays
<1>16. Len(qs_kv) = Len(Keys) /\ decoded < Len(Keys) /\ Len(Keys) \in Nat
       /\ \A j \in 1..Len(qs_kv) : qs_kv[j] = Begin(j)
  <2>1. Keys \in Seq(Seq(Plain))
    BY QueryStringAssumption
  <2>2. Len(Keys) \in Nat
    BY <2>1
  <2> QED
    BY <1>1, <1>2, <2>2 DEF Parsing
<1>17. Parsing'
  BY <1>2, <1>10, <1>11, <1>16 DEF Parsing
<1>18. QueryTypeOK'
  <2>1. from' \in Nat /\ to' \in Nat
    <3>1. from' = from \/ (i + 1 \in 1..n + 1 /\ from' = places[k][i + 1])
      BY <1>3
    <3>2. i + 1 \in 1..n + 1 => places[k][i + 1] \in Nat
      <4>1. Len(places[k]) = n + 1
        BY <1>3, <1>7 DEF Spaced
      <4> QED
        BY <1>7, <4>1
    <3>3. to' = to \/ to' = to + 1
      BY <1>3
    <3> QED
      <4>1. from \in Nat /\ to \in Nat /\ i + 1 \in Nat
        BY <1>1, <1>6 DEF QueryTypeOK
      <4>2. from' \in Nat
        BY <3>1, <3>2, <4>1
      <4>3. to' \in Nat
        BY <3>3, <4>1
      <4> QED
        BY <4>2, <4>3
  <2>2. decoded' \in 0..Len(qs_kv')
    BY <1>2, <1>7, <1>11, <1>16
  <2> QED
    BY <1>1, <1>2, <1>9, <1>11, <2>1, <2>2 DEF QueryTypeOK
<1>19. DecodeStaysInPair
  <2>1. ASSUME NEW j \in DOMAIN qs_kv, j > decoded + 1, NEW p \in qs_kv[j]..Len(qs)
        PROVE  qs'[p] = qs[p]
    <3>1. j \in 1..entry /\ qs_kv[j] = Begin(j) /\ k < j
      <4>1. qs_kv \in Seq(DOMAIN qs) /\ entry = Len(Keys)
        BY <1>1, <1>2 DEF QueryTypeOK, Layout
      <4>2. j \in 1..Len(qs_kv)
        BY <4>1
      <4> QED
        BY <1>3, <1>16, <2>1, <4>1, <4>2
    <3>2. End(k) < Begin(j) /\ Begin(j) \in Nat /\ Begin(j) >= 2
      BY <1>1, <3>1, PairIs DEF Layout
    <3>3. p \in 1..m /\ p # to
      BY <1>4, <1>6, <3>1, <3>2
    <3> QED
      BY <1>9, <3>3
  <2> QED
    BY <2>1 DEF DecodeStaysInPair
<1> QED
  BY <1>14, <1>15, <1>17, <1>18, <1>19 DEF QueryInv

\* Signs put behind a buffer.
LEMMA SignsBehind ==
    ASSUME NEW X, NEW q \in Seq(X), NEW r \in Seq(X), NEW q2, q2 = q \o r
    PROVE  /\ q2 \in Seq(X) /\ Len(q2) = Len(q) + Len(r)
           /\ Len(q) \in Nat /\ Len(r) \in Nat
           /\ \A p \in 1..Len(q) : q2[p] = q[p]
           /\ \A m \in 1..Len(r) : q2[Len(q) + m] = r[m]
<1>1. PICK a \in Nat, b \in Nat : a = Len(q) /\ b = Len(r)
  OBVIOUS
<1>2. q2 \in Seq(X) /\ Len(q2) = a + b
  BY <1>1
<1>3. \A p \in 1..a : q2[p] = q[p]
  BY <1>1
<1>4. \A m \in 1..b : q2[a + m] = r[m]
  <2>1. \A m \in 1..b : a + m \in 1..a + b /\ a + m > a /\ (a + m) - a = m
    OBVIOUS
  <2> QED
    BY <1>1, <2>1
<1> QED
  BY <1>1, <1>2, <1>3, <1>4

\* A key with its equals sign put behind a buffer.
LEMMA KeyBehind ==
    ASSUME NEW X, NEW q \in Seq(X), NEW key \in Seq(X), NEW r \in Seq(X), r = <<"=">>,
           NEW q2, q2 = (q \o key) \o r
    PROVE  /\ q2 \in Seq(X) /\ Len(q2) = Len(q) + Len(key) + 1
           /\ Len(q) \in Nat /\ Len(key) \in Nat
           /\ \A p \in 1..Len(q) : q2[p] = q[p]
           /\ KeyAt(q2, key, Len(q) + 1)
<1>1. PICK a \in Nat, b \in Nat : a = Len(q) /\ b = Len(key)
  OBVIOUS
<1>2. PICK q1 \in Seq(X) : q1 = q \o key
  <2>1. q \o key \in Seq(X)
    BY ConcatProperties
  <2> QED
    BY <2>1
<1>3. Len(r) = 1 /\ r[1] = "="
  OBVIOUS
<1>4. /\ Len(q1) = a + b /\ (\A p \in 1..a : q1[p] = q[p])
      /\ \A m \in 1..b : q1[a + m] = key[m]
  BY <1>1, <1>2, SignsBehind
<1>5. /\ q2 \in Seq(X) /\ Len(q2) = Len(q1) + Len(r)
      /\ (\A p \in 1..Len(q1) : q2[p] = q1[p])
      /\ \A m \in 1..Len(r) : q2[Len(q1) + m] = r[m]
  <2>1. q2 = q1 \o r
    BY <1>2, <1>3
  <2>2. PICK u, v : u = q2 /\ v = r
    OBVIOUS
  <2>3. v \in Seq(X) /\ u = q1 \o v
    BY <2>1, <2>2
  <2>4. /\ u \in Seq(X) /\ Len(u) = Len(q1) + Len(v)
        /\ (\A p \in 1..Len(q1) : u[p] = q1[p])
        /\ \A m \in 1..Len(v) : u[Len(q1) + m] = v[m]
    BY <2>3, SignsBehind
  <2> QED
    BY <2>2, <2>4
<1>6. Len(q2) = a + b + 1 /\ q2[a + b + 1] = "="
  BY <1>3, <1>4, <1>5
<1>7. \A p \in 1..a + b : q2[p] = q1[p]
  BY <1>4, <1>5
<1>8. \A p \in 1..a : q2[p] = q[p]
  <2>1. \A p \in 1..a : p \in 1..a + b
    OBVIOUS
  <2> QED
    BY <1>4, <1>7, <2>1
<1>9. KeyAt(q2, key, a + 1)
  <2>1. ASSUME NEW j \in 1..b PROVE q2[(a + 1) + j - 1] = key[j]
    <3>1. (a + 1) + j - 1 = a + j /\ a + j \in 1..a + b
      OBVIOUS
    <3> QED
      BY <1>4, <1>7, <3>1
  <2>2. (a + 1) + b = a + b + 1
    OBVIOUS
  <2> QED
    BY <1>1, <1>6, <2>1, <2>2 DEF KeyAt
<1> QED
  BY <1>1, <1>5, <1>6, <1>8, <1>9

\* A pair of which nothing has been sent yet: the text and the places of an empty value.
LEMMA EmptyPair ==
    ASSUME NEW f \in BOOLEAN, NEW v \in Nat, NEW q, NEW t, t = <<>>, NEW w, w = <<v>>
    PROVE  /\ Spaced(f, t, w) /\ Coded(f, q, t, w, 1) /\ NoStops(q, v, v - 1)
           /\ w[1] = v /\ w[Len(t) + 1] = v /\ Len(t) = 0 /\ w \in Seq(Nat)
<1>1. Len(t) = 0 /\ Len(w) = 1 /\ w[1] = v /\ w \in Seq(Nat)
  OBVIOUS
<1>2. Len(t) + 1 = 1 /\ 1..Len(t) = {} /\ 1..Len(t) + 1 = {1}
  BY <1>1
<1>3. Spaced(f, t, w)
  BY <1>1, <1>2 DEF Spaced
<1>4. Coded(f, q, t, w, 1)
  BY <1>2 DEF Coded
<1>5. NoStops(q, v, v - 1)
  <2>1. v..v - 1 = {}
    OBVIOUS
  <2> QED
    BY <2>1 DEF NoStops
<1> QED
  BY <1>1, <1>2, <1>3, <1>4, <1>5

\* What is put behind the buffer disturbs no pair in it.
LEMMA TypingKeeps ==
    ASSUME QueryTypeOK, Layout, stage = "typing", decoded = 0, NEW k \in 1..entry, PairRight(k),
           NEW qn, \A p \in 1..Len(qs) : qn[p] = qs[p]
    PROVE  /\ KeyAt(qn, Keys[k], Begin(k)) /\ Coded(form, qn, typed[k], places[k], 1)
           /\ NoStops(qn, places[k][1], End(k) - 1)
           /\ k < entry => qn[End(k)] = Behind(k)
           /\ k \in Nat /\ k > decoded /\ ~(k <= decoded)
<1>1. PICK m \in Nat : m = Len(qs)
  BY DEF QueryTypeOK
<1>2. k \in Nat /\ k > 0 /\ entry \in Nat
  <2>1. Keys \in Seq(Seq(Plain)) /\ entry \in DOMAIN Keys
    BY QueryStringAssumption DEF QueryTypeOK
  <2>2. entry \in 1..Len(Keys) /\ Len(Keys) \in Nat
    BY <2>1
  <2> QED
    BY <2>2
<1>3. k > decoded /\ ~(k <= decoded) /\ ~InHand(k)
  BY <1>2 DEF InHand
<1>4. ASSUME NEW p \in Begin(k)..End(k) - 1 PROVE qn[p] = qs[p]
  <2>1. Begin(k) \in Nat /\ End(k) \in Nat /\ Begin(k) >= 2 /\ End(k) <= m + 1
    BY <1>1, PairIs
  <2>2. p \in 1..m
    BY <2>1
  <2> QED
    BY <1>1, <2>2
<1>5. /\ KeyAt(qs, Keys[k], Begin(k)) /\ Coded(form, qs, typed[k], places[k], 1)
      /\ NoStops(qs, places[k][1], End(k) - 1)
  BY <1>3 DEF PairRight
<1>6. /\ KeyAt(qn, Keys[k], Begin(k)) /\ Coded(form, qn, typed[k], places[k], 1)
      /\ NoStops(qn, places[k][1], End(k) - 1)
  BY <1>4, <1>5, SentStays
<1>7. ASSUME k < entry PROVE qn[End(k)] = Behind(k)
  <2>1. qs[End(k)] = Behind(k)
    BY <1>3, <1>7 DEF PairRight
  <2>2. entry \in 1..entry
    BY <1>2
  <2>3. End(k) < Begin(entry) /\ End(entry) = m + 1
    BY <1>1, <1>7, <2>2 DEF Layout
  <2>4. /\ Begin(entry) \in Nat /\ End(k) \in Nat /\ Begin(k) \in Nat /\ End(entry) \in Nat
        /\ Begin(entry) < End(entry) /\ Begin(k) < End(k)
    BY <2>2, PairIs
  <2>5. End(k) \in 1..m
    BY <2>3, <2>4
  <2> QED
    BY <1>1, <2>1, <2>5
<1> QED
  BY <1>2, <1>3, <1>6, <1>7

LEMMA SendIs ==
    ASSUME QueryInv, Send
    PROVE  QueryInv'
<1>1. QueryTypeOK /\ Layout /\ Parsing /\ Contents
  BY DEF QueryInv
<1>2. /\ stage = "typing" /\ entry = Len(Keys) /\ stage' = "pairs" /\ qs' = Append(qs, Nul)
      /\ from' = Span(qs', 1, {"?", "#"}) + 1
      /\ UNCHANGED <<typed, form, entry, qs_kv, decoded, to, places>>
  BY DEF Send
<1>3. PICK m \in Nat : m = Len(qs)
  BY <1>1 DEF QueryTypeOK
<1>3a. PICK q2 : q2 = qs'
  OBVIOUS
<1>4. /\ q2 \in Seq(Characters \cup {Nul}) /\ Len(q2) = m + 1 /\ q2[m + 1] = Nul
      /\ \A p \in 1..m : q2[p] = qs[p]
  <2>1. qs \in Seq(Characters \cup {Nul}) /\ q2 = Append(qs, Nul)
    BY <1>1, <1>2, <1>3, <1>3a DEF QueryTypeOK
  <2> QED
    BY <1>3, <1>3a, <2>1
<1>5. qs_kv = <<>> /\ decoded = 0 /\ qs[1] = "?"
  BY <1>1, <1>2 DEF Parsing
<1>6. entry \in Nat /\ Len(Keys) \in Nat /\ entry >= 1 /\ 1 \in 1..entry
  <2>1. Keys \in Seq(Seq(Plain))
    BY QueryStringAssumption
  <2>2. entry \in DOMAIN Keys /\ DOMAIN Keys = 1..Len(Keys) /\ Len(Keys) \in Nat
    BY <1>1, <2>1 DEF QueryTypeOK
  <2> QED
    BY <2>2
<1>7. End(entry) = m + 1 /\ \A k \in 1..entry : End(k) <= m + 1
  BY <1>1, <1>2, <1>3, <1>3a, <1>6 DEF Layout
<1>8. m >= 1
  <2>1. Begin(entry) \in Nat /\ End(entry) \in Nat /\ Begin(entry) >= 2 /\ Begin(entry) < End(entry)
    BY <1>1, <1>6, PairIs
  <2> QED
    BY <1>7, <2>1
<1>9. from' = 2
  <2>1. q2[1] = "?" /\ 1 \in 1..Len(q2) /\ Len(q2) \in Nat
    BY <1>4, <1>5, <1>8
  <2>2. q2[1] \in {"?", "#"} \cup {Nul} /\ \A r \in 1..1 - 1 : q2[r] \notin {"?", "#"} \cup {Nul}
    BY <2>1
  <2>3. Span(q2, 1, {"?", "#"}) = 1
    <3>1. PICK o \in Nat : o = 1
      OBVIOUS
    <3>2. PICK x \in o..Len(q2) : x = 1
      BY <2>1, <3>1
    <3>3. Span(q2, o, {"?", "#"}) = x
      BY <2>1, <2>2, <3>1, <3>2, SpanIs
    <3> QED
      BY <3>1, <3>2, <3>3
  <2> QED
    BY <1>2, <1>3, <1>3a, <2>3
<1>10. \A k : Begin(k)' = Begin(k) /\ End(k)' = End(k) /\ Behind(k)' = Behind(k)
  BY <1>2, Unmoved
<1>11. Layout'
  <2>1. /\ \A k \in 1..entry' : /\ Spaced(form, typed[k], places[k])'
                                /\ Begin(k)' >= 2 /\ End(k)' <= Len(qs)' + 1
        /\ Begin(1)' = 2
        /\ \A k \in 1..entry' - 1 : Begin(k + 1)' = End(k)' + 1
        /\ \A k, l \in 1..entry' : k < l => End(k)' < Begin(l)'
        /\ \A k \in entry' + 1..Len(Keys) : typed'[k] = <<>>
    <3>1. ASSUME NEW k \in 1..entry PROVE End(k) <= (m + 1) + 1
      <4>1. End(k) \in Nat
        BY <1>1, PairIs
      <4> QED
        BY <1>7, <4>1
    <3> QED
      BY <1>1, <1>2, <1>3, <1>3a, <1>4, <1>10, <3>1 DEF Layout, Spaced
  <2>2. entry' = Len(Keys) /\ End(entry)' = Len(qs)'
    BY <1>2, <1>3, <1>3a, <1>4, <1>7, <1>10
  <2> QED
    BY <1>2, <2>1, <2>2 DEF Layout
<1>12. Parsing'
  <2>1. Begin(1) = 2 /\ Len(qs_kv) = 0
    BY <1>1, <1>5 DEF Layout
  <2>2. qs'[1] = "?"
    BY <1>3, <1>3a, <1>4, <1>5, <1>8
  <2>3. from' = places'[Len(qs_kv') + 1][1] - Len(Keys[Len(qs_kv') + 1]) - 1
    <3>1. Len(qs_kv') + 1 = 1
      BY <1>2, <2>1
    <3> QED
      BY <1>2, <1>9, <2>1, <3>1 DEF Begin
  <2>4. Len(qs_kv') = 0 /\ Len(qs_kv') < Len(Keys)
    BY <1>2, <1>6, <2>1
  <2> QED
    BY <1>2, <1>5, <2>2, <2>3, <2>4 DEF Parsing, Begin
<1>13. Contents'
  <2>1. ASSUME NEW k \in 1..entry PROVE PairRight(k)'
    <3>1. PairRight(k)
      BY <1>1 DEF Contents
    <3>2. \A p \in 1..Len(qs) : q2[p] = qs[p]
      BY <1>3, <1>3a, <1>4
    <3>3. /\ KeyAt(q2, Keys[k], Begin(k)) /\ Coded(form, q2, typed[k], places[k], 1)
          /\ NoStops(q2, places[k][1], End(k) - 1)
          /\ k < entry => q2[End(k)] = Behind(k)
          /\ k \in Nat /\ k > decoded /\ ~(k <= decoded)
      BY <1>1, <1>2, <1>5, <3>1, <3>2, TypingKeeps
    <3>4. q2[End(k)] = Behind(k)
      <4>1. k = entry \/ k < entry
        BY <1>6
      <4>2. k = entry => Behind(k) = Nul /\ End(k) = m + 1
        BY <1>2, <1>6, <1>7 DEF Behind
      <4> QED
        BY <1>4, <3>3, <4>1, <4>2
    <3>5. /\ KeyAt(qs', Keys[k], Begin(k)') /\ qs'[End(k)'] = Behind(k)'
          /\ Coded(form', qs', typed'[k], places'[k], 1)
          /\ NoStops(qs', places'[k][1], End(k)' - 1)
      BY <1>2, <1>3, <1>3a, <1>10, <3>3, <3>4
    <3>6. ~InHand(k)' /\ ~(k <= decoded') /\ k > decoded'
      BY <1>2, <3>3 DEF InHand
    <3> QED
      BY <3>5, <3>6 DEF PairRight
  <2> QED
    BY <1>2, <2>1 DEF Contents
<1>14. QueryTypeOK'
  BY <1>1, <1>2, <1>3, <1>3a, <1>4, <1>5, <1>9 DEF QueryTypeOK
<1> QED
  BY <1>11, <1>12, <1>13, <1>14 DEF QueryInv

LEMMA Entries ==
    ASSUME QueryTypeOK
    PROVE  entry \in Nat /\ Len(Keys) \in Nat /\ DOMAIN Keys = 1..Len(Keys)
           /\ entry \in 1..Len(Keys) /\ entry \in 1..entry /\ entry >= 1
<1>1. Keys \in Seq(Seq(Plain))
  BY QueryStringAssumption
<1>2. DOMAIN Keys = 1..Len(Keys) /\ Len(Keys) \in Nat /\ entry \in DOMAIN Keys
  BY <1>1 DEF QueryTypeOK
<1> QED
  BY <1>2

LEMMA QueryInitIs ==
    ASSUME QueryInit
    PROVE  QueryInv
<1>1. Keys \in Seq(Seq(Plain)) /\ Keys # <<>>
  BY QueryStringAssumption
<1>2. DOMAIN Keys = 1..Len(Keys) /\ Len(Keys) \in Nat /\ 1 \in 1..Len(Keys)
  BY <1>1
<1>3. PICK l \in Nat : l = Len(Keys[1]) /\ Keys[1] \in Seq(Plain)
  BY <1>2, KeysAre
<1>4. /\ typed = [k \in DOMAIN Keys |-> <<>>] /\ form \in BOOLEAN
      /\ qs = <<"?">> \o Keys[1] \o <<"=">> /\ stage = "typing" /\ entry = 1
      /\ qs_kv = <<>> /\ decoded = 0 /\ from = 0 /\ to = 0
      /\ places = [k \in DOMAIN Keys |-> IF k = 1 THEN <<l + 3>> ELSE <<>>]
  BY <1>3 DEF QueryInit
<1>5. /\ qs \in Seq(Characters \cup {Nul}) /\ Len(qs) = l + 2 /\ qs[1] = "?" /\ KeyAt(qs, Keys[1], 2)
  <2>1. PICK All : All = Characters \cup {Nul}
    OBVIOUS
  <2>2. "=" \in All /\ "?" \in All /\ Plain \subseteq All
    BY <2>1, SignsAre DEF Characters
  <2>3. PICK mark \in Seq(All) : mark = <<"?">> /\ Len(mark) = 1 /\ mark[1] = "?"
    <3>1. <<"?">> \in Seq(All) /\ Len(<<"?">>) = 1 /\ <<"?">>[1] = "?"
      BY <2>2
    <3> QED
      BY <3>1
  <2>4. PICK k1 \in Seq(All) : k1 = Keys[1]
    BY <1>3, <2>2
  <2>4a. PICK buf : buf = qs
    OBVIOUS
  <2>5. buf = mark \o k1 \o <<"=">>
    BY <1>4, <2>3, <2>4, <2>4a
  <2>6. /\ buf \in Seq(All) /\ Len(buf) = Len(mark) + Len(k1) + 1
        /\ Len(mark) \in Nat /\ Len(k1) \in Nat
        /\ \A p \in 1..Len(mark) : buf[p] = mark[p]
        /\ KeyAt(buf, k1, Len(mark) + 1)
    <3>1. PICK sign \in Seq(All) : sign = <<"=">>
      <4>1. <<"=">> \in Seq(All)
        BY <2>2
      <4> QED
        BY <4>1
    <3>2. buf = (mark \o k1) \o sign
      BY <2>5, <3>1
    <3>3. buf \in Seq(All) /\ Len(buf) = Len(mark) + Len(k1) + 1 /\ Len(mark) \in Nat /\ Len(k1) \in Nat
      BY <3>1, <3>2, KeyBehind
    <3>4. \A p \in 1..Len(mark) : buf[p] = mark[p]
      BY <3>1, <3>2, KeyBehind
    <3>5. KeyAt(buf, k1, Len(mark) + 1)
      BY <3>1, <3>2, KeyBehind
    <3> QED
      BY <3>3, <3>4, <3>5
  <2>7. Len(buf) = l + 2 /\ buf[1] = "?" /\ KeyAt(buf, k1, 2)
    BY <1>3, <2>3, <2>4, <2>6
  <2> QED
    BY <2>1, <2>4, <2>4a, <2>6, <2>7
<1>6. typed[1] = <<>> /\ places[1] = <<l + 3>>
  BY <1>2, <1>4
<1>7. PICK val, spots : val = typed[1] /\ spots = places[1]
  OBVIOUS
<1>7a. PICK v \in Nat : v = l + 3
  OBVIOUS
<1>8. /\ Spaced(form, val, spots) /\ Coded(form, qs, val, spots, 1) /\ NoStops(qs, v, v - 1)
      /\ spots[1] = v /\ spots[Len(val) + 1] = v
  BY <1>4, <1>6, <1>7, <1>7a, EmptyPair
<1>9. Begin(1) = 2 /\ End(1) = l + 3
  <2>1. Begin(1) = (l + 3) - l - 1
    BY <1>3, <1>7, <1>7a, <1>8 DEF Begin
  <2>2. (l + 3) - l - 1 = 2
    OBVIOUS
  <2> QED
    BY <1>7, <1>7a, <1>8, <2>1, <2>2 DEF End
<1>10. Layout
  <2>1. \A k \in 1..entry : k = 1
    BY <1>4
  <2>2. \A k \in entry + 1..Len(Keys) : typed[k] = <<>>
    BY <1>2, <1>4
  <2>3. 1..entry - 1 = {}
    BY <1>4
  <2>4. End(entry) = Len(qs) + 1 /\ End(1) <= Len(qs) + 1 /\ Begin(1) >= 2
    BY <1>4, <1>5, <1>9
  <2>5. Spaced(form, typed[1], places[1])
    BY <1>7, <1>7a, <1>8
  <2>6. \A k, o \in 1..entry : k < o => FALSE
    BY <1>4
  <2> QED
    BY <1>4, <1>9, <2>1, <2>2, <2>3, <2>4, <2>5, <2>6 DEF Layout
<1>11. Parsing
  <2>1. Len(qs_kv) = 0 /\ 1..Len(qs_kv) = {}
    BY <1>4
  <2> QED
    BY <1>4, <1>5, <2>1 DEF Parsing
<1>12. Contents
  <2>1. PairRight(1)
    <3>1. /\ KeyAt(qs, Keys[1], Begin(1)) /\ Coded(form, qs, typed[1], places[1], 1)
          /\ NoStops(qs, places[1][1], End(1) - 1)
      BY <1>5, <1>7, <1>7a, <1>8, <1>9
    <3>2. ~(1 <= decoded) /\ ~(1 < entry) /\ ~InHand(1) /\ stage = "typing"
      BY <1>4 DEF InHand
    <3> QED
      BY <3>1, <3>2 DEF PairRight
  <2> QED
    BY <1>4, <2>1 DEF Contents
<1>13. QueryTypeOK
  <2>1. typed \in [DOMAIN Keys -> Seq(Characters)]
    BY <1>4
  <2>2. places \in [DOMAIN Keys -> Seq(Nat)]
    <3>1. <<l + 3>> \in Seq(Nat) /\ <<>> \in Seq(Nat)
      OBVIOUS
    <3> QED
      BY <1>4, <3>1
  <2>3. qs_kv \in Seq(DOMAIN qs) /\ Len(qs_kv) <= Len(Keys) /\ decoded \in 0..Len(qs_kv)
    BY <1>2, <1>4
  <2>4. entry \in DOMAIN Keys
    BY <1>2, <1>4
  <2> QED
    BY <1>4, <1>5, <2>1, <2>2, <2>3, <2>4 DEF QueryTypeOK
<1> QED
  BY <1>10, <1>11, <1>12, <1>13 DEF QueryInv

LEMMA NextEntryIs ==
    ASSUME QueryInv, NextEntry
    PROVE  QueryInv'
<1>1. QueryTypeOK /\ Layout /\ Parsing /\ Contents
  BY DEF QueryInv
<1>2. PICK o, buf : o = entry + 1 /\ buf = qs'
  OBVIOUS
<1>3. /\ stage = "typing" /\ entry < Len(Keys) /\ entry' = o
      /\ buf = qs \o <<"&">> \o Keys[o] \o <<"=">>
      /\ places' = [places EXCEPT ![o] = <<Len(buf) + 1>>]
      /\ UNCHANGED <<typed, form, stage, qs_kv, decoded, from, to>>
  BY <1>2 DEF NextEntry
<1>4. /\ entry \in Nat /\ o \in Nat /\ entry < o /\ o \in 1..Len(Keys) /\ o \in DOMAIN Keys /\ o >= 2
      /\ entry \in 1..entry /\ Len(Keys) \in Nat /\ (\A k \in 1..o : k = o \/ k \in 1..entry)
      /\ \A k \in 1..entry : k # o /\ k < o /\ k \in 1..o
  BY <1>1, <1>2, <1>3, Entries
<1>5. PICK m \in Nat, l \in Nat : m = Len(qs) /\ l = Len(Keys[o]) /\ Keys[o] \in Seq(Plain)
  BY <1>1, <1>4, KeysAre DEF QueryTypeOK
<1>6. /\ buf \in Seq(Characters \cup {Nul}) /\ Len(buf) = m + l + 2
      /\ \A p \in 1..m : buf[p] = qs[p]
      /\ buf[m + 1] = "&" /\ KeyAt(buf, Keys[o], m + 2)
  <2>1. PICK All : All = Characters \cup {Nul}
    OBVIOUS
  <2>2. "=" \in All /\ "&" \in All /\ Plain \subseteq All
    BY <2>1, SignsAre DEF Characters
  <2>3. PICK mark \in Seq(All) : mark = Append(qs, "&") /\ Len(mark) = m + 1 /\ mark[m + 1] = "&"
                               /\ \A p \in 1..m : mark[p] = qs[p]
    <3>1. qs \in Seq(All)
      BY <1>1, <2>1 DEF QueryTypeOK
    <3>2. Append(qs, "&") \in Seq(All) /\ Len(Append(qs, "&")) = m + 1
          /\ Append(qs, "&")[m + 1] = "&" /\ \A p \in 1..m : Append(qs, "&")[p] = qs[p]
      BY <1>5, <2>2, <3>1
    <3> QED
      BY <3>2
  <2>4. PICK k1 \in Seq(All) : k1 = Keys[o]
    BY <1>5, <2>2
  <2>5. buf = mark \o k1 \o <<"=">>
    <3>1. qs \o <<"&">> = Append(qs, "&")
      <4>1. qs \in Seq(All) /\ "&" \in All
        BY <1>1, <2>1, <2>2 DEF QueryTypeOK
      <4> QED
        BY <4>1, AppendIsConcat
    <3> QED
      BY <1>3, <2>3, <2>4, <3>1
  <2>6. /\ buf \in Seq(All) /\ Len(buf) = Len(mark) + Len(k1) + 1
        /\ Len(mark) \in Nat /\ Len(k1) \in Nat
        /\ \A p \in 1..Len(mark) : buf[p] = mark[p]
        /\ KeyAt(buf, k1, Len(mark) + 1)
    <3>1. PICK sign \in Seq(All) : sign = <<"=">>
      <4>1. <<"=">> \in Seq(All)
        BY <2>2
      <4> QED
        BY <4>1
    <3>2. buf = (mark \o k1) \o sign
      BY <2>5, <3>1
    <3>3. buf \in Seq(All) /\ Len(buf) = Len(mark) + Len(k1) + 1 /\ Len(mark) \in Nat /\ Len(k1) \in Nat
      BY <3>1, <3>2, KeyBehind
    <3>4. \A p \in 1..Len(mark) : buf[p] = mark[p]
      BY <3>1, <3>2, KeyBehind
    <3>5. KeyAt(buf, k1, Len(mark) + 1)
      BY <3>1, <3>2, KeyBehind
    <3> QED
      BY <3>3, <3>4, <3>5
  <2>7. Len(buf) = m + l + 2 /\ KeyAt(buf, k1, m + 2) /\ \A p \in 1..m + 1 : buf[p] = mark[p]
    <3>1. Len(mark) + 1 = m + 2 /\ Len(k1) = l
      BY <1>5, <2>3, <2>4
    <3> QED
      BY <2>3, <2>6, <3>1
  <2>8. m + 1 \in 1..m + 1 /\ \A p \in 1..m : p \in 1..m + 1
    OBVIOUS
  <2>9. buf[m + 1] = "&" /\ \A p \in 1..m : buf[p] = qs[p]
    BY <2>3, <2>7, <2>8
  <2>10. KeyAt(buf, Keys[o], m + 2) /\ buf \in Seq(Characters \cup {Nul})
    BY <2>1, <2>4, <2>6, <2>7
  <2> QED
    BY <2>7, <2>9, <2>10
<1>7. PICK v \in Nat : v = m + l + 3
  OBVIOUS
<1>7a. PICK val, spots : val = typed[o] /\ spots = <<v>>
  OBVIOUS
<1>8. val = <<>> /\ places'[o] = spots /\ (\A k \in 1..entry : places'[k] = places[k])
      /\ places' \in [DOMAIN Keys -> Seq(Nat)]
  <2>1. typed[o] = <<>>
    BY <1>1, <1>2, <1>4 DEF Layout
  <2>2. <<Len(buf) + 1>> = <<v>> /\ <<v>> \in Seq(Nat)
    BY <1>6, <1>7, <1>7a
  <2>3. places \in [DOMAIN Keys -> Seq(Nat)] /\ \A k \in 1..entry : k \in DOMAIN Keys
    BY <1>1, <1>3, <1>4, Entries, SMTT(30) DEF QueryTypeOK
  <2> QED
    BY <1>3, <1>4, <1>7, <1>7a, <2>1, <2>2, <2>3
<1>9. /\ Spaced(form, val, spots) /\ Coded(form, buf, val, spots, 1) /\ NoStops(buf, v, v - 1)
      /\ spots[1] = v /\ spots[Len(val) + 1] = v
  <2>1. form \in BOOLEAN
    BY <1>1 DEF QueryTypeOK
  <2> QED
    <3>1. val = <<>> /\ spots = <<v>> /\ v \in Nat
      BY <1>7, <1>7a, <1>8
    <3>2. spots[1] = v /\ spots[Len(val) + 1] = v
      BY <2>1, <3>1, EmptyPair
    <3>3. Spaced(form, val, spots)
      BY <2>1, <3>1, EmptyPair
    <3>4. Coded(form, buf, val, spots, 1)
      BY <2>1, <3>1, EmptyPair
    <3>5. NoStops(buf, v, v - 1)
      BY <2>1, <3>1, EmptyPair
    <3> QED
      BY <3>2, <3>3, <3>4, <3>5
<1>10. Begin(o)' = m + 2 /\ End(o)' = v /\ Len(buf) + 1 = v
  <2>1. Begin(o)' = v - l - 1
    BY <1>5, <1>8, <1>9 DEF Begin
  <2>2. v - l - 1 = m + 2 /\ Len(buf) + 1 = v
    BY <1>6, <1>7, <1>7a
  <2> QED
    BY <1>3, <1>7, <1>7a, <1>8, <1>9, <2>1, <2>2 DEF End
<1>11. ASSUME NEW k \in 1..entry PROVE Begin(k)' = Begin(k) /\ End(k)' = End(k) /\ End(k) <= m + 1
  BY <1>1, <1>3, <1>5, <1>8 DEF Begin, End, Layout
<1>12. End(entry) = m + 1
  BY <1>1, <1>3, <1>5 DEF Layout
<1>13. Layout'
  <2>1. ASSUME NEW k \in 1..o
        PROVE  Spaced(form, typed[k], places[k])' /\ Begin(k)' >= 2 /\ End(k)' <= Len(buf) + 1
    <3>1. CASE k = o
      <4>1. Spaced(form', typed'[o], places'[o])
        BY <1>3, <1>7, <1>7a, <1>8, <1>9
      <4>2. Begin(o)' >= 2 /\ End(o)' <= Len(buf) + 1
        BY <1>10
      <4> QED
        BY <3>1, <4>1, <4>2
    <3>2. CASE k \in 1..entry
      <4>1. Spaced(form, typed[k], places[k])'
        BY <1>1, <1>3, <1>8, <3>2, ZenonT(30) DEF Layout, Spaced
      <4>2. Begin(k) >= 2 /\ End(k) \in Nat
        BY <1>1, <3>2, PairIs
      <4>3. End(k) <= Len(buf) + 1
        BY <1>6, <1>11, <3>2, <4>2
      <4> QED
        BY <1>11, <3>2, <4>1, <4>2, <4>3
    <3> QED
      BY <1>4, <3>1, <3>2
  <2>2. Begin(1)' = 2
    <3>1. 1 \in 1..entry
      BY <1>4
    <3> QED
      BY <1>1, <1>11, <3>1 DEF Layout
  <2>3. ASSUME NEW k \in 1..o - 1 PROVE Begin(k + 1)' = End(k)' + 1
    <3>1. k \in 1..entry
      BY <1>2, <1>4
    <3>2. CASE k = entry
      <4>1. k + 1 = o
        BY <1>2, <3>2
      <4> QED
        BY <1>10, <1>11, <1>12, <3>1, <3>2, <4>1
    <3>3. CASE k # entry
      <4>1. k \in 1..entry - 1 /\ k + 1 \in 1..entry
        BY <1>4, <3>1, <3>3
      <4>2. Begin(k + 1) = End(k) + 1
        BY <1>1, <4>1 DEF Layout
      <4> QED
        BY <1>11, <3>1, <4>1, <4>2
    <3> QED
      BY <3>2, <3>3
  <2>4. ASSUME NEW k \in 1..o, NEW j \in 1..o, k < j PROVE End(k)' < Begin(j)'
    <3>1. k \in 1..entry
      BY <1>2, <1>4, <2>4
    <3>2. CASE j = o
      <4>1. End(k) \in Nat
        BY <1>1, <3>1, PairIs
      <4> QED
        BY <1>10, <1>11, <3>1, <3>2, <4>1
    <3>3. CASE j \in 1..entry
      BY <1>1, <1>11, <2>4, <3>1, <3>3 DEF Layout
    <3> QED
      BY <1>4, <3>2, <3>3
  <2>5. \A k \in o + 1..Len(Keys) : typed'[k] = <<>>
    <3>1. \A k \in o + 1..Len(Keys) : k \in entry + 1..Len(Keys)
      BY <1>2, <1>4
    <3> QED
      BY <1>1, <1>3, <3>1 DEF Layout
  <2>6. End(entry)' = Len(qs)' + 1 /\ stage' = "typing"
    <3>1. End(o)' = Len(qs') + 1
      BY <1>2, <1>10
    <3> QED
      BY <1>3, <3>1 DEF End
  <2> QED
    BY <1>2, <1>3, <2>1, <2>2, <2>3, <2>4, <2>5, <2>6 DEF Layout
<1>14. decoded = 0 /\ qs_kv = <<>> /\ qs[1] = "?"
  BY <1>1, <1>3 DEF Parsing
<1>15. m >= 1
  <2>1. Begin(entry) \in Nat /\ End(entry) \in Nat /\ Begin(entry) >= 2 /\ Begin(entry) < End(entry)
    BY <1>1, <1>4, PairIs
  <2> QED
    BY <1>12, <2>1
<1>16. Parsing'
  <2>1. qs'[1] = "?"
    BY <1>2, <1>6, <1>14, <1>15
  <2>2. qs_kv' = <<>> /\ decoded' = 0 /\ stage' = "typing" /\ 1..Len(qs_kv') = {}
    BY <1>3, <1>14
  <2> QED
    BY <2>1, <2>2 DEF Parsing
<1>17. Contents'
  <2>1. ASSUME NEW k \in 1..entry PROVE PairRight(k)'
    <3>1. PairRight(k)
      BY <1>1 DEF Contents
    <3>2. \A p \in 1..Len(qs) : buf[p] = qs[p]
      BY <1>5, <1>6
    <3>3. /\ KeyAt(buf, Keys[k], Begin(k)) /\ Coded(form, buf, typed[k], places[k], 1)
          /\ NoStops(buf, places[k][1], End(k) - 1)
          /\ k < entry => buf[End(k)] = Behind(k)
          /\ k \in Nat /\ k > decoded /\ ~(k <= decoded)
      BY <1>1, <1>3, <1>14, <3>1, <3>2, TypingKeeps
    <3>4. buf[End(k)] = Behind(k)
      <4>1. k = entry \/ k < entry
        BY <1>4
      <4>2. k = entry => Behind(k) = "&" /\ End(k) = m + 1
        BY <1>3, <1>12 DEF Behind
      <4> QED
        BY <1>6, <3>3, <4>1, <4>2
    <3>5. /\ KeyAt(qs', Keys[k], Begin(k)') /\ qs'[End(k)'] = Behind(k)'
          /\ Coded(form', qs', typed'[k], places'[k], 1)
          /\ NoStops(qs', places'[k][1], End(k)' - 1)
      BY <1>2, <1>3, <1>8, <1>11, <3>3, <3>4 DEF Behind
    <3>6. ~InHand(k)' /\ ~(k <= decoded') /\ k > decoded'
      BY <1>3, <3>3 DEF InHand
    <3> QED
      BY <3>5, <3>6 DEF PairRight
  <2>2. PairRight(o)'
    <3>1. /\ KeyAt(qs', Keys[o], Begin(o)') /\ Coded(form', qs', typed'[o], places'[o], 1)
          /\ NoStops(qs', places'[o][1], End(o)' - 1)
      BY <1>2, <1>3, <1>6, <1>7, <1>7a, <1>8, <1>9, <1>10
    <3>2. ~InHand(o)' /\ ~(o <= decoded') /\ ~(o < entry') /\ stage' = "typing"
      BY <1>3, <1>4, <1>14 DEF InHand
    <3> QED
      BY <3>1, <3>2 DEF PairRight
  <2> QED
    BY <1>3, <1>4, <2>1, <2>2 DEF Contents
<1>18. QueryTypeOK'
  <2>1. qs_kv' \in Seq(DOMAIN qs') /\ Len(qs_kv') <= Len(Keys) /\ decoded' \in 0..Len(qs_kv')
    BY <1>3, <1>4, <1>14
  <2> QED
    BY <1>1, <1>2, <1>3, <1>4, <1>6, <1>8, <2>1 DEF QueryTypeOK
<1> QED
  BY <1>13, <1>16, <1>17, <1>18 DEF QueryInv

\* The code of one more character, behind what has been typed.
Sent(f, q, t, w) == Coded(f, q, t, w, 1) /\ NoStops(q, w[1], w[Len(t) + 1] - 1)

LEMMA ValueGrows ==
    ASSUME NEW asForm \in BOOLEAN, NEW text \in Seq(Characters), NEW marks \in Seq(Nat), Spaced(asForm, text, marks),
           NEW c1 \in Characters, NEW len \in Nat, len = Len(Code(c1, asForm)), len > 0,
           NEW text2, text2 = Append(text, c1), NEW marks2, marks2 = Append(marks, marks[Len(text) + 1] + len),
           NEW s, Coded(asForm, s, text, marks, 1), NoStops(s, marks[1], marks[Len(text) + 1] - 1),
           \A m \in 1..len : s[marks[Len(text) + 1] + m - 1] = Code(c1, asForm)[m]
    PROVE  Sent(asForm, s, text2, marks2)
<1>1. PICK n \in Nat : n = Len(text) /\ Len(text2) = n + 1
  <2>1. Len(text) \in Nat
    OBVIOUS
  <2>2. Len(text2) = Len(text) + 1
    OBVIOUS
  <2> QED
    BY <2>1, <2>2, Zenon
<1>2. /\ text2[n + 1] = c1 /\ marks2[1] = marks[1] /\ marks2[n + 1] = marks[n + 1] /\ marks2[Len(text2) + 1] = marks[n + 1] + len
      /\ \A i \in 1..n : text2[i] = text[i] /\ marks2[i] = marks[i]
  <2>1. /\ marks2[1] = marks[1] /\ marks2[Len(text) + 1] = marks[Len(text) + 1]
        /\ marks2[Len(text2) + 1] = marks[Len(text) + 1] + len /\ text2[Len(text2)] = c1
        /\ \A i \in 1..Len(text) : text2[i] = text[i] /\ marks2[i] = marks[i]
    <3>1. Grown(asForm, text, marks, c1, len, text2, marks2)
      BY SpacedGrows
    <3> QED
      BY <3>1 DEF Grown
  <2> QED
    BY <1>1, <2>1
<1>3. PICK v \in Nat, e \in Nat : v = marks[1] /\ e = marks[n + 1] /\ v <= e
  <2>1. Len(marks) = n + 1 /\ 1 \in 1..n + 1 /\ n + 1 \in 1..n + 1
    BY <1>1 DEF Spaced
  <2>2. marks[1] \in Nat /\ marks[n + 1] \in Nat
    BY <2>1
  <2>3. marks[1] + (n + 1) <= marks[n + 1] + 1
    BY <1>1, <2>1 DEF Spaced
  <2>4. \A a, b \in Nat : a + (n + 1) <= b + 1 => a <= b
    OBVIOUS
  <2> QED
    BY <2>2, <2>3, <2>4
<1>4. Coded(asForm, s, text2, marks2, 1)
  <2>1. ASSUME NEW j \in 1..n + 1, NEW m \in 1..Len(Code(text2[j], asForm))
        PROVE  s[marks2[j] + m - 1] = Code(text2[j], asForm)[m]
    <3>1. CASE j = n + 1
      <4>1. text2[j] = c1 /\ marks2[j] = e
        BY <1>2, <1>3, <3>1
      <4>2. m \in 1..len
        BY <4>1
      <4> QED
        BY <1>1, <1>3, <4>1, <4>2
    <3>2. CASE j # n + 1
      <4>1. j \in 1..n
        BY <3>2
      <4>2. text2[j] = text[j] /\ marks2[j] = marks[j]
        BY <1>2, <4>1
      <4> QED
        BY <1>1, <4>1, <4>2 DEF Coded
    <3> QED
      BY <3>1, <3>2
  <2> QED
    BY <1>1, <2>1 DEF Coded
<1>5. NoStops(s, v, (e + len) - 1)
  <2>1. ASSUME NEW p \in v..(e + len) - 1 PROVE s[p] \notin Stops
    <3>1. CASE p < e
      <4>1. p \in v..e - 1
        BY <3>1
      <4> QED
        BY <1>1, <1>3, <4>1 DEF NoStops
    <3>2. CASE ~(p < e)
      <4>1. PICK m \in 1..len : p = e + m - 1
        <5>1. p - e + 1 \in 1..len /\ p = e + (p - e + 1) - 1
          BY <3>2
        <5> QED
          BY <5>1
      <4>2. s[p] = Code(c1, asForm)[m]
        BY <1>1, <1>3, <4>1
      <4>3. Code(c1, asForm)[m] \notin Stops
        BY CodeIs
      <4> QED
        BY <4>2, <4>3
    <3> QED
      BY <3>1, <3>2
  <2> QED
    BY <2>1 DEF NoStops
<1> QED
  BY <1>2, <1>3, <1>4, <1>5 DEF Sent

LEMMA TypeCharacterIs ==
    ASSUME QueryInv, NEW sign \in Characters, TypeCharacter(sign)
    PROVE  QueryInv'
<1>1. QueryTypeOK /\ Layout /\ Parsing /\ Contents
  BY DEF QueryInv
<1>2. PICK buf, val, spots : buf = qs' /\ val = typed'[entry] /\ spots = places'[entry]
  OBVIOUS
<1>3. /\ stage = "typing" /\ typed' = [typed EXCEPT ![entry] = Append(@, sign)]
      /\ buf = qs \o Code(sign, form)
      /\ places' = [places EXCEPT ![entry] = Append(@, Len(buf) + 1)]
      /\ UNCHANGED <<form, stage, entry, qs_kv, decoded, from, to>>
  BY <1>2 DEF TypeCharacter
<1>4. /\ entry \in Nat /\ Len(Keys) \in Nat /\ DOMAIN Keys = 1..Len(Keys)
      /\ entry \in 1..Len(Keys) /\ entry \in DOMAIN Keys /\ entry \in 1..entry /\ entry >= 1
  BY <1>1, Entries
<1>5. /\ typed[entry] \in Seq(Characters) /\ places[entry] \in Seq(Nat) /\ form \in BOOLEAN
      /\ Spaced(form, typed[entry], places[entry])
      /\ typed \in [DOMAIN Keys -> Seq(Characters)] /\ places \in [DOMAIN Keys -> Seq(Nat)]
  BY <1>1, <1>4, PairIs DEF QueryTypeOK
<1>6. PICK old \in Seq(Characters), was \in Seq(Nat) : old = typed[entry] /\ was = places[entry]
  BY <1>5
<1>7. PICK m \in Nat, d \in Nat, n \in Nat :
        m = Len(qs) /\ d = Len(Code(sign, form)) /\ n = Len(old) /\ d > 0
  <2>1. Len(qs) \in Nat /\ Len(old) \in Nat
    BY <1>1 DEF QueryTypeOK
  <2>2. Len(Code(sign, form)) \in {1, 3}
    BY <1>5, CodeIs
  <2>3. Len(Code(sign, form)) \in Nat /\ Len(Code(sign, form)) > 0
    <3>1. \A x \in {1, 3} : x \in Nat /\ x > 0
      OBVIOUS
    <3> QED
      BY <2>2, <3>1
  <2> QED
    BY <2>1, <2>3
<1>8. was[n + 1] = m + 1 /\ End(entry) = m + 1
  BY <1>1, <1>3, <1>6, <1>7 DEF Layout, End
<1>9. /\ buf \in Seq(Characters \cup {Nul}) /\ Len(buf) = m + d
      /\ \A p \in 1..m : buf[p] = qs[p]
      /\ \A j \in 1..d : buf[(m + 1) + j - 1] = Code(sign, form)[j]
  <2>1. PICK All : All = Characters \cup {Nul}
    OBVIOUS
  <2>2. PICK have \in Seq(All), code \in Seq(All) : have = qs /\ code = Code(sign, form)
    <3>1. qs \in Seq(All)
      BY <1>1, <2>1 DEF QueryTypeOK
    <3>2. Code(sign, form) \in Seq(Characters)
      BY <1>5, CodeIs
    <3>3. Code(sign, form) \in Seq(All)
      BY <2>1, <3>2
    <3> QED
      BY <3>1, <3>3
  <2>3. buf = have \o code
    BY <1>3, <2>2
  <2>4. buf \in Seq(All) /\ Len(buf) = Len(have) + Len(code)
    BY <2>3, SignsBehind
  <2>5. \A p \in 1..Len(have) : buf[p] = have[p]
    BY <2>3, SignsBehind
  <2>6. \A j \in 1..Len(code) : buf[Len(have) + j] = code[j]
    BY <2>3, SignsBehind
  <2>7. \A j \in 1..d : (m + 1) + j - 1 = m + j
    OBVIOUS
  <2> QED
    BY <1>7, <2>1, <2>2, <2>4, <2>5, <2>6, <2>7
<1>10. val = Append(old, sign) /\ spots = Append(was, was[n + 1] + d)
  <2>1. Len(buf) + 1 = (m + 1) + d
    BY <1>9
  <2>2. val = Append(typed[entry], sign) /\ spots = Append(places[entry], Len(buf) + 1)
    BY <1>2, <1>3, <1>4, <1>5
  <2> QED
    BY <1>6, <1>8, <2>1, <2>2
<1>11. /\ val \in Seq(Characters) /\ spots \in Seq(Nat) /\ Len(val) = n + 1
       /\ Spaced(form, val, spots) /\ spots[1] = was[1] /\ spots[Len(val) + 1] = m + 1 + d
  <2>1. /\ val \in Seq(Characters) /\ spots \in Seq(Nat) /\ Len(val) = Len(old) + 1
        /\ Spaced(form, val, spots)
        /\ spots[1] = was[1] /\ spots[Len(val) + 1] = was[Len(old) + 1] + d
    <3>1. spots = Append(was, was[Len(old) + 1] + d)
      BY <1>7, <1>10
    <3>2. Spaced(form, old, was)
      BY <1>5, <1>6
    <3>3. Grown(form, old, was, sign, d, val, spots)
      BY <1>5, <1>7, <1>10, <3>1, <3>2, SpacedGrows
    <3> QED
      BY <3>3 DEF Grown
  <2> QED
    BY <1>7, <1>8, <2>1
<1>12. \A k \in 1..Len(Keys) : k # entry => typed'[k] = typed[k] /\ places'[k] = places[k]
  BY <1>3, <1>4, <1>5
<1>13. ASSUME NEW k \in 1..entry, k # entry
       PROVE  /\ typed'[k] = typed[k] /\ places'[k] = places[k] /\ k < entry
              /\ Begin(k)' = Begin(k) /\ End(k)' = End(k)
  <2>1. k \in 1..Len(Keys) /\ k < entry
    BY <1>4, <1>13
  <2>2. typed'[k] = typed[k] /\ places'[k] = places[k]
    BY <1>12, <1>13, <2>1
  <2> QED
    BY <2>1, <2>2 DEF Begin, End
<1>14. Begin(entry)' = Begin(entry) /\ End(entry)' = m + 1 + d
  <2>1. Begin(entry)' = spots[1] - Len(Keys[entry]) - 1 /\ Begin(entry) = was[1] - Len(Keys[entry]) - 1
    BY <1>2, <1>3, <1>6 DEF Begin
  <2>2. End(entry)' = spots[Len(val) + 1]
    BY <1>2, <1>3 DEF End
  <2> QED
    BY <1>11, <2>1, <2>2
<1>15. \A k \in 1..entry : Begin(k)' = Begin(k)
  <2>1. ASSUME NEW k \in 1..entry, NEW o, o = entry, k = o PROVE Begin(k)' = Begin(k)
    BY <1>3, <1>14, <2>1 DEF Begin
  <2> QED
    BY <1>13, <2>1
<1>16. PICK o \in 1..entry : o = entry /\ Begin(o)' = Begin(o) /\ End(o)' = m + 1 + d
  BY <1>3, <1>4, <1>14, <1>15 DEF End
<1>17. Layout'
  <2>1. ASSUME NEW k \in 1..entry
        PROVE  Spaced(form', typed'[k], places'[k]) /\ Begin(k)' >= 2 /\ End(k)' <= Len(buf) + 1
    <3>1. Begin(k) >= 2 /\ End(k) <= m + 1 /\ End(k) \in Nat /\ Spaced(form, typed[k], places[k])
      BY <1>1, <1>7, PairIs
    <3>2. CASE k = o
      <4>1. Spaced(form', typed'[k], places'[k])
        BY <1>2, <1>3, <1>11, <1>16, <3>2
      <4>2. End(o)' <= Len(buf) + 1
        BY <1>9, <1>16
      <4> QED
        BY <1>16, <3>1, <3>2, <4>1, <4>2
    <3>3. CASE k # o
      <4>1. typed'[k] = typed[k] /\ places'[k] = places[k] /\ Begin(k)' = Begin(k) /\ End(k)' = End(k)
        BY <1>13, <1>16, <3>3
      <4>2. End(k) <= Len(buf) + 1
        BY <1>9, <3>1
      <4> QED
        BY <1>3, <3>1, <4>1, <4>2
    <3> QED
      BY <3>2, <3>3
  <2>2. Begin(1)' = 2
    <3>1. 1 \in 1..entry
      BY <1>4
    <3> QED
      BY <1>1, <1>15, <3>1 DEF Layout
  <2>3. ASSUME NEW k \in 1..entry - 1 PROVE Begin(k + 1)' = End(k)' + 1
    <3>1. k \in 1..entry /\ k + 1 \in 1..entry /\ k # entry
      BY <1>4
    <3>2. Begin(k + 1) = End(k) + 1
      BY <1>1 DEF Layout
    <3> QED
      BY <1>13, <1>15, <3>1, <3>2
  <2>4. ASSUME NEW k \in 1..entry, NEW j \in 1..entry, k < j PROVE End(k)' < Begin(j)'
    <3>1. k # entry
      BY <1>4, <2>4
    <3>2. End(k) < Begin(j)
      BY <1>1, <2>4 DEF Layout
    <3> QED
      BY <1>13, <1>15, <3>1, <3>2
  <2>5. \A k \in entry + 1..Len(Keys) : typed'[k] = <<>>
    <3>1. \A k \in entry + 1..Len(Keys) : k \in 1..Len(Keys) /\ k # entry
      BY <1>4
    <3> QED
      BY <1>1, <1>12, <3>1 DEF Layout
  <2>6. End(entry)' = Len(qs') + 1 /\ stage' = "typing"
    BY <1>2, <1>3, <1>9, <1>14
  <2> QED
    BY <1>2, <1>3, <2>1, <2>2, <2>3, <2>4, <2>5, <2>6 DEF Layout, Spaced
<1>18. decoded = 0 /\ qs_kv = <<>> /\ qs[1] = "?"
  BY <1>1, <1>3 DEF Parsing
<1>19. m >= 1
  <2>1. Begin(entry) \in Nat /\ End(entry) \in Nat /\ Begin(entry) >= 2 /\ Begin(entry) < End(entry)
    BY <1>1, <1>4, PairIs
  <2> QED
    BY <1>8, <2>1
<1>20. Parsing'
  <2>1. qs'[1] = "?"
    BY <1>2, <1>9, <1>18, <1>19
  <2>2. qs_kv' = <<>> /\ decoded' = 0 /\ stage' = "typing" /\ 1..Len(qs_kv') = {}
    BY <1>3, <1>18
  <2> QED
    BY <2>1, <2>2 DEF Parsing
<1>21. ASSUME NEW k \in 1..entry
       PROVE  /\ KeyAt(buf, Keys[k], Begin(k)) /\ Coded(form, buf, typed[k], places[k], 1)
              /\ NoStops(buf, places[k][1], End(k) - 1)
              /\ k < entry => buf[End(k)] = Behind(k)
              /\ k \in Nat /\ k > decoded /\ ~(k <= decoded)
  <2>1. PairRight(k)
    BY <1>1 DEF Contents
  <2>2. \A p \in 1..Len(qs) : buf[p] = qs[p]
    BY <1>7, <1>9
  <2> QED
    BY <1>1, <1>3, <1>18, <2>1, <2>2, TypingKeeps
<1>22. ASSUME NEW k \in 1..entry, k # entry PROVE PairRight(k)'
  <2>1. /\ KeyAt(qs', Keys[k], Begin(k)') /\ qs'[End(k)'] = Behind(k)'
        /\ Coded(form', qs', typed'[k], places'[k], 1)
        /\ NoStops(qs', places'[k][1], End(k)' - 1)
    BY <1>2, <1>3, <1>13, <1>21, <1>22 DEF Behind
  <2>2. ~InHand(k)' /\ ~(k <= decoded') /\ k > decoded'
    BY <1>3, <1>21 DEF InHand
  <2> QED
    BY <2>1, <2>2 DEF PairRight
<1>23. PairRight(o)'
  <2>1. Coded(form, buf, old, was, 1) /\ NoStops(buf, was[1], was[Len(old) + 1] - 1)
    BY <1>6, <1>16, <1>21 DEF End
  <2>2. \A j \in 1..d : buf[was[Len(old) + 1] + j - 1] = Code(sign, form)[j]
    BY <1>7, <1>8, <1>9
  <2>3. spots = Append(was, was[Len(old) + 1] + d) /\ Spaced(form, old, was)
    BY <1>5, <1>6, <1>7, <1>10
  <2>4. Sent(form, buf, val, spots)
    <3>1. form \in BOOLEAN /\ old \in Seq(Characters) /\ was \in Seq(Nat) /\ sign \in Characters
      BY <1>5, <1>7, <1>10
    <3>2. val = Append(old, sign) /\ d \in Nat /\ d = Len(Code(sign, form)) /\ d > 0
      BY <1>5, <1>7, <1>10
    <3> QED
      BY <2>1, <2>2, <2>3, <3>1, <3>2, ValueGrows, ZenonT(30)
  <2>5. Coded(form, buf, val, spots, 1) /\ NoStops(buf, spots[1], spots[Len(val) + 1] - 1)
    BY <2>4 DEF Sent
  <2>6. KeyAt(buf, Keys[o], Begin(o))
    BY <1>21
  <2>7. /\ KeyAt(qs', Keys[o], Begin(o)') /\ Coded(form', qs', typed'[o], places'[o], 1)
        /\ NoStops(qs', places'[o][1], End(o)' - 1)
    BY <1>2, <1>3, <1>11, <1>16, <2>4, <2>5, <2>6
  <2>8. ~InHand(o)' /\ ~(o <= decoded') /\ ~(o < entry') /\ stage' = "typing"
    BY <1>3, <1>4, <1>16, <1>21 DEF InHand
  <2> QED
    BY <2>7, <2>8 DEF PairRight
<1>24. Contents'
  BY <1>3, <1>16, <1>22, <1>23 DEF Contents
<1>25. QueryTypeOK'
  <2>1. qs_kv' \in Seq(DOMAIN qs') /\ Len(qs_kv') <= Len(Keys) /\ decoded' \in 0..Len(qs_kv')
    BY <1>3, <1>4, <1>18
  <2>2. typed' \in [DOMAIN Keys -> Seq(Characters)]
    BY <1>2, <1>3, <1>4, <1>5, <1>11
  <2>3. places' \in [DOMAIN Keys -> Seq(Nat)]
    BY <1>2, <1>3, <1>4, <1>5, <1>11
  <2> QED
    BY <1>1, <1>2, <1>3, <1>9, <2>1, <2>2, <2>3 DEF QueryTypeOK
<1> QED
  BY <1>17, <1>20, <1>24, <1>25 DEF QueryInv

\* A key matches its own pair only.
LEMMA KeyFound ==
    ASSUME NEW k \in 1..Len(Keys), NEW j \in 1..Len(Keys), NEW s \in Nat, KeyAt(qs, Keys[j], s)
    PROVE  IsKey(Keys[k], s) <=> j = k
<1>1. PICK key \in Seq(Plain), other \in Seq(Plain) : key = Keys[k] /\ other = Keys[j]
  BY KeysAre
<1>2. PICK a \in Nat, b \in Nat : a = Len(key) /\ b = Len(other)
  OBVIOUS
<1>3. (\A i \in 1..b : qs[s + i - 1] = other[i]) /\ qs[s + b] = "="
  BY <1>1, <1>2 DEF KeyAt
<1>4. (\A i \in 1..a : key[i] \in Plain) /\ (\A i \in 1..b : other[i] \in Plain)
  BY <1>2
<1>5. ASSUME j = k PROVE IsKey(Keys[k], s)
  <2>1. key = other /\ a = b
    BY <1>1, <1>2, <1>5
  <2>2. DOMAIN key = 1..a
    BY <1>2
  <2> QED
    BY <1>1, <1>2, <1>3, <2>1, <2>2 DEF IsKey, Stops
<1>6. ASSUME IsKey(Keys[k], s) PROVE j = k
  <2>1. (\A i \in 1..a : qs[s + i - 1] = key[i]) /\ qs[s + a] \in Stops
    <3>1. DOMAIN key = 1..a
      BY <1>2
    <3> QED
      BY <1>1, <1>2, <1>6, <3>1 DEF IsKey
  <2>2. ~(a < b)
    <3>1. SUFFICES ASSUME a < b PROVE FALSE
      OBVIOUS
    <3>2. a + 1 \in 1..b /\ s + (a + 1) - 1 = s + a
      BY <3>1
    <3>3. qs[s + a] = other[a + 1] /\ other[a + 1] \in Plain
      BY <1>3, <1>4, <3>2
    <3> QED
      BY <2>1, <3>3, SignsAre
  <2>3. ~(b < a)
    <3>1. SUFFICES ASSUME b < a PROVE FALSE
      OBVIOUS
    <3>2. b + 1 \in 1..a /\ s + (b + 1) - 1 = s + b
      BY <3>1
    <3>3. qs[s + b] = key[b + 1] /\ key[b + 1] \in Plain
      BY <1>4, <2>1, <3>2
    <3>4. "=" \notin Plain
      BY SignsAre
    <3> QED
      BY <1>3, <3>3, <3>4
  <2>4. a = b
    BY <2>2, <2>3
  <2>5. \A i \in 1..a : key[i] = other[i]
    BY <1>3, <2>1, <2>4
  <2>6. key = other
    BY <1>2, <2>4, <2>5, SeqEqual
  <2>7. \A x, y \in DOMAIN Keys : Keys[x] = Keys[y] => x = y
    BY QueryStringAssumption DEF IsInjective
  <2> QED
    BY <1>1, <2>6, <2>7, KeysAre
<1> QED
  BY <1>5, <1>6

\* qs_k2v finds the pair of its key.
LEMMA PairFound ==
    ASSUME NEW k \in 1..Len(Keys), Len(qs_kv) = Len(Keys), Len(Keys) \in Nat,
           \A j \in 1..Len(Keys) : qs_kv[j] \in Nat /\ KeyAt(qs, Keys[j], qs_kv[j])
    PROVE  SelectInSeq(qs_kv, LAMBDA p : IsKey(Keys[k], p)) = k
<1> DEFINE I == {i \in 1..Len(qs_kv) : IsKey(Keys[k], qs_kv[i])}
<1>1. I = {k}
  BY KeyFound
<1>2. (CHOOSE x \in I : \A y \in I : x <= y) = k
  <2>1. k \in Nat
    OBVIOUS
  <2> HIDE DEF I
  <2>2. k \in I /\ \A y \in I : k <= y
    BY <1>1, <2>1
  <2>3. \A x \in I : x = k
    BY <1>1
  <2> QED
    BY <2>2, <2>3
<1>3. SelectInSeq(qs_kv, LAMBDA p : IsKey(Keys[k], p)) = IF I # {} THEN (CHOOSE x \in I : \A y \in I : x <= y) ELSE 0
  BY DEF SelectInSeq, Min
<1> HIDE DEF I
<1> QED
  BY <1>1, <1>2, <1>3

\* The text that lies decoded at v.
LEMMA TextFound ==
    ASSUME qs \in Seq(Characters \cup {Nul}), NEW val \in Seq(Characters), NEW v \in Nat, v >= 1,
           NEW n \in Nat, n = Len(val), Plainly(qs, val, v, n + 1), qs[v + n] = Nul, v + n <= Len(qs)
    PROVE  CString(v) = val
<1>1. PICK m \in Nat : m = Len(qs)
  OBVIOUS
<1>2. \A j \in 1..n : qs[v + j - 1] = val[j]
  BY DEF Plainly
<1>3. ASSUME NEW p \in v..(v + n) - 1 PROVE qs[p] \notin {} \cup {Nul}
  <2>1. PICK j \in 1..n : p = v + j - 1
    <3>1. p - v + 1 \in 1..n /\ p = v + (p - v + 1) - 1
      OBVIOUS
    <3> QED
      BY <3>1
  <2>2. val[j] \in Characters
    OBVIOUS
  <2>3. Nul \notin Characters
    BY QueryStringAssumption
  <2> QED
    BY <1>2, <2>1, <2>2, <2>3
<1>4. Span(qs, v, {}) = v + n
  <2>1. v + n \in v..Len(qs)
    BY <1>1
  <2>2. PICK e \in v..Len(qs) : e = v + n
    BY <2>1
  <2>3. Span(qs, v, {}) = e
    BY <1>1, <1>3, <2>2, SpanIs
  <2> QED
    BY <2>2, <2>3
<1>5. CString(v) = SubSeq(qs, v, (v + n) - 1)
  BY <1>4 DEF CString
<1>6. PICK sub : sub = SubSeq(qs, v, (v + n) - 1)
  OBVIOUS
<1>7. sub \in Seq(Characters \cup {Nul}) /\ Len(sub) = n /\ \A j \in 1..n : sub[j] = qs[v + j - 1]
  <2>1. v \in Int /\ (v + n) - 1 \in Int /\ (v + n) - 1 <= Len(qs) /\ v >= 1
    BY <1>1
  <2>2. (IF v <= (v + n) - 1 THEN (v + n) - 1 - v + 1 ELSE 0) = n
    OBVIOUS
  <2>3. \A j \in 1..n : v + j - 1 \in 1..m
    BY <1>1
  <2>4. sub = [j \in 1..((v + n) - 1 - v + 1) |-> qs[v + j - 1]]
    BY <1>6
  <2>5. (v + n) - 1 - v + 1 = n
    OBVIOUS
  <2>6. sub = [j \in 1..n |-> qs[v + j - 1]]
    BY <2>4, <2>5
  <2>7. \A j \in 1..n : qs[v + j - 1] \in Characters \cup {Nul}
    BY <1>1, <2>3
  <2> QED
    BY <2>6, <2>7
<1>8. \A j \in 1..n : sub[j] = val[j]
  BY <1>2, <1>7
<1>9. val \in Seq(Characters \cup {Nul})
  OBVIOUS
<1>10. sub = val
  BY <1>7, <1>8, <1>9, SeqEqual
<1> QED
  BY <1>5, <1>6, <1>10

\* In the end the server reads what was typed.
LEMMA ReadRight ==
    ASSUME QueryInv
    PROVE  ServerReadsWhatWasTyped
<1>1. QueryTypeOK /\ Layout /\ Parsing /\ Contents
  BY DEF QueryInv
<1>2. SUFFICES ASSUME stage = "read", NEW k \in DOMAIN Keys PROVE ValueOf(Keys[k]) = typed[k]
  BY DEF ServerReadsWhatWasTyped
<1>3. /\ Len(Keys) \in Nat /\ k \in 1..Len(Keys) /\ entry = Len(Keys) /\ decoded = Len(Keys)
      /\ Len(qs_kv) = Len(Keys) /\ \A j \in 1..Len(Keys) : qs_kv[j] = Begin(j)
  <2>1. Len(Keys) \in Nat /\ DOMAIN Keys = 1..Len(Keys)
    BY <1>1, Entries
  <2> QED
    BY <1>1, <1>2, <2>1 DEF Parsing, Layout
<1>4. \A j \in 1..Len(Keys) : PairRight(j)
  BY <1>1, <1>3 DEF Contents
<1>5. \A j \in 1..Len(Keys) : qs_kv[j] \in Nat /\ KeyAt(qs, Keys[j], qs_kv[j])
  <2>1. ASSUME NEW j \in 1..Len(Keys) PROVE Begin(j) \in Nat /\ KeyAt(qs, Keys[j], Begin(j))
    <3>1. Begin(j) \in Nat
      BY <1>1, <1>3, PairIs
    <3> QED
      BY <1>4, <3>1 DEF PairRight
  <2> QED
    BY <1>3, <2>1
<1>6. SelectInSeq(qs_kv, LAMBDA p : IsKey(Keys[k], p)) = k
  BY <1>3, <1>5, PairFound
<1>7. ValueOf(Keys[k]) = CString(Span(qs, Begin(k), {"="}) + 1)
  BY <1>3, <1>6 DEF ValueOf
<1>8. /\ k <= decoded /\ KeyAt(qs, Keys[k], Begin(k))
      /\ Plainly(qs, typed[k], places[k][1], Len(typed[k]) + 1)
      /\ qs[places[k][1] + Len(typed[k])] = Nul
  <2>1. k <= decoded
    BY <1>3
  <2> QED
    BY <1>3, <1>4, <2>1 DEF PairRight
<1>9. PICK b \in Nat, l \in Nat, v \in Nat, n \in Nat, m \in Nat :
        /\ b = Begin(k) /\ l = Len(Keys[k]) /\ v = places[k][1] /\ n = Len(typed[k]) /\ m = Len(qs)
        /\ v = b + l + 1 /\ v + n <= m
  <2>1. /\ Keys[k] \in Seq(Plain) /\ typed[k] \in Seq(Characters) /\ Begin(k) \in Nat
        /\ places[k][1] \in Nat /\ places[k][1] = Begin(k) + Len(Keys[k]) + 1
        /\ End(k) \in Nat /\ places[k][1] + Len(typed[k]) <= End(k)
    BY <1>1, <1>3, PairIs
  <2>2. End(k) <= Len(qs) /\ Len(qs) \in Nat
    BY <1>1, <1>2, <1>3, PairInBuffer
  <2>3. Len(Keys[k]) \in Nat /\ Len(typed[k]) \in Nat
    BY <2>1
  <2>4. places[k][1] + Len(typed[k]) <= Len(qs)
    BY <2>1, <2>2, <2>3
  <2> QED
    BY <2>1, <2>2, <2>3, <2>4
<1>10. Span(qs, b, {"="}) = b + l
  <2>1. v = b + l + 1 /\ v + n <= m
    BY <1>9
  <2>2. b + l \in b..m
    BY <2>1
  <2>3. qs[b + l] = "="
    BY <1>8, <1>9 DEF KeyAt
  <2>4. ASSUME NEW p \in b..(b + l) - 1 PROVE qs[p] \notin {"="} \cup {Nul}
    <3>1. PICK j \in 1..l : p = b + j - 1
      <4>1. p - b + 1 \in 1..l /\ p = b + (p - b + 1) - 1
        OBVIOUS
      <4> QED
        BY <4>1
    <3>2. qs[p] = Keys[k][j]
      BY <1>8, <1>9, <3>1 DEF KeyAt
    <3>3. Keys[k][j] \in Plain
      <4>1. Keys[k] \in Seq(Plain)
        BY <1>3, KeysAre
      <4> QED
        BY <1>9, <4>1
    <3>4. "=" \notin Plain /\ Nul \notin Plain
      BY SignsAre
    <3> QED
      BY <3>2, <3>3, <3>4
  <2>5. PICK e \in b..Len(qs) : e = b + l
    BY <1>9, <2>2
  <2>6. Span(qs, b, {"="}) = e
    <3>1. Len(qs) \in Nat /\ qs[e] \in {"="} \cup {Nul}
      BY <1>9, <2>3, <2>5
    <3> QED
      BY <2>4, <2>5, <3>1, SpanIs
  <2> QED
    BY <2>5, <2>6
<1>11. CString(v) = typed[k]
  <2>1. PICK val \in Seq(Characters) : val = typed[k]
    BY <1>1, <1>2 DEF QueryTypeOK
  <2>2. qs \in Seq(Characters \cup {Nul})
    BY <1>1 DEF QueryTypeOK
  <2>3. n = Len(val) /\ Plainly(qs, val, v, n + 1) /\ qs[v + n] = Nul /\ v + n <= Len(qs) /\ v >= 1
    <3>1. v = b + l + 1
      BY <1>9
    <3>2. v >= 1
      BY <3>1
    <3> QED
      BY <1>8, <1>9, <2>1, <3>2
  <2>4. CString(v) = val
    BY <2>2, <2>3, TextFound
  <2> QED
    BY <2>1, <2>4
<1>12. Span(qs, Begin(k), {"="}) + 1 = v
  BY <1>9, <1>10
<1> QED
  BY <1>7, <1>11, <1>12

LEMMA QueryStep ==
    ASSUME QueryInv, [QueryNext]_queryVars
    PROVE  QueryInv' /\ [DecodeStaysInPair]_queryVars
<1>1. QueryTypeOK /\ Layout /\ Parsing /\ Contents
  BY DEF QueryInv
<1>2. ASSUME stage = "typing" PROVE DecodeStaysInPair
  <2>1. qs_kv = <<>>
    BY <1>1, <1>2 DEF Parsing
  <2> QED
    BY <2>1 DEF DecodeStaysInPair
<1>3. ASSUME qs' = qs PROVE DecodeStaysInPair
  BY <1>3 DEF DecodeStaysInPair
<1>4. ASSUME NEW c \in Characters, TypeCharacter(c) PROVE QueryInv' /\ DecodeStaysInPair
  <2>1. stage = "typing"
    BY <1>4 DEF TypeCharacter
  <2> QED
    BY <1>2, <1>4, <2>1, TypeCharacterIs
<1>5. CASE NextEntry
  <2>1. stage = "typing"
    BY <1>5 DEF NextEntry
  <2> QED
    BY <1>2, <1>5, <2>1, NextEntryIs
<1>6. CASE Send
  <2>1. stage = "typing"
    BY <1>6 DEF Send
  <2> QED
    BY <1>2, <1>6, <2>1, SendIs
<1>7. CASE FindPair
  <2>1. qs' = qs
    BY <1>7 DEF FindPair
  <2> QED
    BY <1>3, <1>7, <2>1, FindPairIs
<1>8. CASE NextPair
  BY <1>3, <1>8, NextPairIs
<1>9. CASE DecodeCharacter
  BY <1>9, DecodeCharacterIs
<1>10. CASE UNCHANGED queryVars
  <2>1. UNCHANGED <<typed, form, qs, stage, entry, qs_kv, decoded, from, to, places>>
    BY <1>10 DEF queryVars
  <2>2. QueryTypeOK'
    BY <1>1, <2>1 DEF QueryTypeOK
  <2>3. Layout'
    BY <1>1, <2>1 DEF Layout, Spaced, Begin, End
  <2>4. Parsing'
    BY <1>1, <2>1 DEF Parsing, Begin
  <2>5. Contents'
    BY <1>1, <2>1 DEF Contents, PairRight, InHand, Begin, End, Behind
  <2> QED
    BY <1>10, <2>2, <2>3, <2>4, <2>5 DEF QueryInv
<1> QED
  BY <1>4, <1>5, <1>6, <1>7, <1>8, <1>9, <1>10 DEF QueryNext

\* Whatever is typed in the fields, however it is encoded, and whatever the keys are,
\* the types of the buffer and of the places in it are kept.
THEOREM QueryTypeCorrect == QuerySpec => []QueryTypeOK
<1>1. QueryInit => QueryInv
  BY QueryInitIs
<1>2. QueryInv /\ [QueryNext]_queryVars => QueryInv'
  BY QueryStep
<1>3. QueryInv => QueryTypeOK
  BY DEF QueryInv
<1> QED
  BY <1>1, <1>2, <1>3, PTL DEF QuerySpec

\* The server reads under each key exactly what was typed in its field, and decoding a value in
\* place never touches the pairs behind it.
THEOREM QueryReadsRight == QuerySpec => QueryIsRead
<1>1. QueryInit => QueryInv
  BY QueryInitIs
<1>2. QueryInv /\ [QueryNext]_queryVars => QueryInv'
  BY QueryStep
<1>3. QueryInv => ServerReadsWhatWasTyped
  BY ReadRight
<1>4. QueryInv /\ [QueryNext]_queryVars => [DecodeStaysInPair]_queryVars
  BY QueryStep
<1> QED
  BY <1>1, <1>2, <1>3, <1>4, PTL DEF QuerySpec, QueryIsRead

=============================================================================
