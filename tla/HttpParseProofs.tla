-------------------------- MODULE HttpParseProofs --------------------------
(* What holds of the parser of HttpParse for every buffer and every text.  *)
EXTENDS HttpParse, SequenceTheorems, WellFoundedInduction, TLAPS

(* A stop of parse_line lies between the indices.                          *)
LEMMA StopInBuffer ==
    ASSUME TypeOK, NEW i, StopsAt(i)
    PROVE  /\ i \in 0 .. BUFFER_SIZE - 1
           /\ checked_index <= i /\ i < read_index
BY HttpAssumption DEF TypeOK, StopsAt

(* Cutting a line off keeps the buffer and the indices.                    *)
LEMMA CutKeepsIndices ==
    ASSUME TypeOK, NEW i, StopsAt(i), CutLine(i)
    PROVE  /\ buffer' \in [0 .. BUFFER_SIZE - 1 -> Symbols \cup {"NUL"}]
           /\ checked_index' \in 0 .. BUFFER_SIZE
           /\ start_line' \in 0 .. checked_index'
<1>1. CrOf(i) \in Int /\ CrOf(i) + 2 <= read_index /\ CrOf(i) >= 0
  BY StopInBuffer, HttpAssumption DEF TypeOK, CutLine, LineOkAt, CrOf, StopsAt
<1>2. checked_index' \in 0 .. BUFFER_SIZE /\ start_line' = checked_index'
  BY <1>1, HttpAssumption DEF TypeOK, CutLine, NextLine
<1>3. buffer' \in [0 .. BUFFER_SIZE - 1 -> Symbols \cup {"NUL"}]
  BY <1>1, HttpAssumption DEF TypeOK, CutLine
<1> QED BY <1>2, <1>3, HttpAssumption

LEMMA TypedInit == Init => TypeOK
BY HttpAssumption DEF Init, TypeOK

LEMMA TypedStep == TypeOK /\ [Next]_vars => TypeOK'
<1> SUFFICES ASSUME TypeOK, [Next]_vars PROVE TypeOK'
  OBVIOUS
<1>1. CASE Accept
  BY <1>1 DEF Accept, TypeOK, textVars, parserVars
<1>2. CASE ClientCloses
  BY <1>2 DEF ClientCloses, TypeOK, parserVars
<1>3. ASSUME NEW n \in 1 .. Len(text) - taken, Receive(n) PROVE TypeOK'
  <2>1. taken' \in 0 .. Len(text) /\ read_index' \in 0 .. BUFFER_SIZE /\ text' = text
    BY <1>3, HttpAssumption DEF Receive, TypeOK
  <2>2. \A i \in read_index .. read_index + n - 1 : text[taken + i - read_index + 1] \in Symbols
    <3> TAKE i \in read_index .. read_index + n - 1
    <3>1. taken + i - read_index + 1 \in 1 .. Len(text)
      BY <1>3 DEF TypeOK
    <3> QED BY <3>1 DEF TypeOK
  <2>3. buffer' \in [0 .. BUFFER_SIZE - 1 -> Symbols \cup {"NUL"}]
    BY <1>3, <2>2 DEF Receive, WriteAt, TypeOK
  <2> QED BY <1>3, <2>1, <2>3 DEF Receive, TypeOK, parserVars
<1>4. CASE ReceiveNothing
  BY <1>4, HttpAssumption DEF ReceiveNothing, TypeOK, textVars, parserVars
<1>5. CASE ReceiveFails
  BY <1>5 DEF ReceiveFails, TypeOK, textVars, parserVars
<1>6. ASSUME NEW i \in 0 .. BUFFER_SIZE - 1, ParseRequestLine(i) PROVE TypeOK'
  BY <1>6, CutKeepsIndices
  DEF ParseRequestLine, GoOn, Answer, TypeOK, textVars
<1>7. ASSUME NEW i \in 0 .. BUFFER_SIZE - 1, ParseHeaders(i) PROVE TypeOK'
  BY <1>7, CutKeepsIndices
  DEF ParseHeaders, GoOn, Answer, TypeOK, textVars
<1>8. ASSUME NEW i \in 0 .. BUFFER_SIZE - 1, LineBad(i) PROVE TypeOK'
  BY <1>8, StopInBuffer, HttpAssumption DEF LineBad, Answer, TypeOK, textVars
<1>9. CASE LineOpen
  BY <1>9, StopInBuffer, HttpAssumption DEF LineOpen, TypeOK, textVars
<1>10. CASE UNCHANGED vars
  BY <1>10 DEF vars, TypeOK, textVars, parserVars
<1> QED BY <1>1, <1>2, <1>3, <1>4, <1>5, <1>6, <1>7, <1>8, <1>9, <1>10 DEF Next, Parse

(* For every text, every cut into segments and every size of the buffer,   *)
(* recv() and the parser stay inside the buffer, and a line never begins   *)
(* behind the parser.                                                      *)
THEOREM IndicesStayInBuffer == Spec => []TypeOK
BY TypedInit, TypedStep, PTL DEF Spec

-----------------------------------------------------------------------------
(* Where the second segment goes: behind the first, unless there is none.  *)
SecondGoesBehind ==
    /\ segments \in Nat
    /\ segments = 0 => taken = 0 /\ (read_index = 0)
    /\ segments = 1 => read_index = taken \/ ended \/ taken >= BUFFER_SIZE

IntactInv == TypeOK /\ SecondGoesBehind /\ TextIntact

(* Cutting a line off writes before the start of the next line only.       *)
LEMMA CutBeforeNextLine ==
    ASSUME TypeOK, NEW i, StopsAt(i), CutLine(i)
    PROVE  /\ start_line <= start_line'
           /\ \A j \in start_line' .. BUFFER_SIZE - 1 : buffer'[j] = buffer[j]
<1>1. CrOf(i) \in Int /\ CrOf(i) + 2 <= read_index /\ CrOf(i) + 1 >= i /\ CrOf(i) >= 0
  BY StopInBuffer, HttpAssumption DEF TypeOK, CutLine, LineOkAt, CrOf, StopsAt
<1>2. start_line' = CrOf(i) + 2
  BY DEF CutLine, NextLine
<1>3. start_line <= start_line'
  BY <1>1, <1>2, StopInBuffer, HttpAssumption DEF TypeOK
<1>4. \A j \in start_line' .. BUFFER_SIZE - 1 : buffer'[j] = buffer[j]
  BY <1>1, <1>2, HttpAssumption DEF TypeOK, CutLine
<1> QED BY <1>3, <1>4

(* Steps that leave the text, and the buffer from the new line on, alone.  *)
LEMMA IntactWhenKept ==
    ASSUME IntactInv, TypeOK', UNCHANGED <<text, taken, segments>>, start_line <= start_line',
           \A j \in start_line' .. BUFFER_SIZE - 1 : buffer'[j] = buffer[j]
    PROVE  TextIntact'
BY HttpAssumption DEF IntactInv, TextIntact, TypeOK

LEMMA IntactStep == IntactInv /\ [Next]_vars => IntactInv'
<1> SUFFICES ASSUME IntactInv, [Next]_vars PROVE IntactInv'
  OBVIOUS
<1> USE HttpAssumption
<1>0. TypeOK /\ TypeOK'
  BY TypedStep DEF IntactInv
<1>1. CASE Accept
  BY <1>0, <1>1, IntactWhenKept
  DEF Accept, IntactInv, SecondGoesBehind, TypeOK, textVars, parserVars
<1>2. CASE ClientCloses
  BY <1>0, <1>2, IntactWhenKept
  DEF ClientCloses, IntactInv, SecondGoesBehind, TypeOK, parserVars
<1>3. ASSUME NEW n \in 1 .. Len(text) - taken, Receive(n) PROVE IntactInv'
  <2>1. SecondGoesBehind'
    BY <1>0, <1>3 DEF IntactInv, SecondGoesBehind, Receive, TypeOK
  <2>2. ASSUME segments' <= 2, taken' <= BUFFER_SIZE
        PROVE  read_index = taken /\ segments <= 2 /\ taken <= BUFFER_SIZE
    BY <1>0, <1>3, <2>2 DEF IntactInv, SecondGoesBehind, Receive, TypeOK
  <2>3. ASSUME segments' <= 2, taken' <= BUFFER_SIZE, NEW i \in start_line' .. taken' - 1
        PROVE  buffer'[i] = text'[i + 1]
    <3>1. i \in 0 .. BUFFER_SIZE - 1 /\ i \in start_line .. taken + n - 1 /\ text' = text
      BY <1>0, <1>3, <2>3 DEF Receive, TypeOK, parserVars
    <3>2. CASE i < taken
      BY <1>0, <1>3, <2>2, <2>3, <3>1, <3>2 DEF IntactInv, TextIntact, Receive, WriteAt, TypeOK
    <3>3. CASE i >= taken
      <4>1. buffer'[i] = text[taken + i - read_index + 1]
        BY <1>0, <1>3, <2>2, <2>3, <3>1, <3>3 DEF Receive, WriteAt, TypeOK
      <4> QED BY <1>0, <2>2, <2>3, <3>1, <4>1 DEF TypeOK
    <3> QED BY <1>0, <3>1, <3>2, <3>3 DEF TypeOK
  <2> QED BY <1>0, <2>1, <2>3 DEF IntactInv, TextIntact
<1>4. CASE ReceiveNothing
  BY <1>0, <1>4, IntactWhenKept
  DEF ReceiveNothing, IntactInv, SecondGoesBehind, TypeOK, textVars, parserVars
<1>5. CASE ReceiveFails
  BY <1>0, <1>5, IntactWhenKept
  DEF ReceiveFails, IntactInv, SecondGoesBehind, TypeOK, textVars, parserVars
<1>6. ASSUME NEW i \in 0 .. BUFFER_SIZE - 1, ParseRequestLine(i) PROVE IntactInv'
  BY <1>0, <1>6, CutBeforeNextLine, IntactWhenKept
  DEF ParseRequestLine, GoOn, Answer, IntactInv, SecondGoesBehind, textVars
<1>7. ASSUME NEW i \in 0 .. BUFFER_SIZE - 1, ParseHeaders(i) PROVE IntactInv'
  BY <1>0, <1>7, CutBeforeNextLine, IntactWhenKept
  DEF ParseHeaders, GoOn, Answer, IntactInv, SecondGoesBehind, textVars
<1>8. ASSUME NEW i \in 0 .. BUFFER_SIZE - 1, LineBad(i) PROVE IntactInv'
  BY <1>0, <1>8, IntactWhenKept
  DEF LineBad, Answer, IntactInv, SecondGoesBehind, TypeOK, textVars
<1>9. CASE LineOpen
  BY <1>0, <1>9, IntactWhenKept
  DEF LineOpen, IntactInv, SecondGoesBehind, TypeOK, textVars
<1>10. CASE UNCHANGED vars
  BY <1>0, <1>10, IntactWhenKept
  DEF vars, IntactInv, SecondGoesBehind, TypeOK, textVars, parserVars
<1> QED BY <1>1, <1>2, <1>3, <1>4, <1>5, <1>6, <1>7, <1>8, <1>9, <1>10 DEF Next, Parse

(* For every text cut in two anywhere, and every size of the buffer, what  *)
(* the parser has still to look at is the text itself.                     *)
THEOREM TwoSegmentsIntact == Spec => []TextIntact
<1>1. Init => IntactInv
  BY TypedInit, HttpAssumption DEF Init, IntactInv, SecondGoesBehind, TextIntact
<1>2. IntactInv => TextIntact
  BY DEF IntactInv
<1> QED BY <1>1, <1>2, IntactStep, PTL DEF Spec

-----------------------------------------------------------------------------
IsWord(line, m, n, word) == SubSeq(line, m, n) = <<word>>

LEMMA OneWord ==
    ASSUME NEW line \in Seq(Symbols), NEW m \in 1 .. Len(line), NEW n \in 0 .. Len(line), NEW word
    PROVE  IsWord(line, m, n, word) <=> (m = n /\ line[m] = word)
<1>1. Len(<<word>>) = 1 /\ <<word>>[1] = word /\ <<word>> \in Seq({word})
  OBVIOUS
<1>2. SubSeq(line, m, n) = [i \in 1 .. n - m + 1 |-> line[i + m - 1]]
  OBVIOUS
<1>3. Len(line) \in Nat /\ Len(SubSeq(line, m, n)) = IF m <= n THEN n - m + 1 ELSE 0
  OBVIOUS
<1>4. ASSUME SubSeq(line, m, n) = <<word>>
      PROVE  m = n /\ line[m] = word
  <2>1. Len(SubSeq(line, m, n)) = 1 /\ SubSeq(line, m, n)[1] = word
    BY <1>1, <1>4
  <2>2. m = n
    BY <1>3, <2>1
  <2>3. SubSeq(line, m, n)[1] = line[m]
    BY <2>2
  <2> QED BY <2>1, <2>2, <2>3
<1>5. ASSUME m = n, line[m] = word
      PROVE  SubSeq(line, m, n) = <<word>>
  <2>1. n - m + 1 = 1 /\ \A i \in 1 .. 1 : i + m - 1 = m
    BY <1>5
  <2>2. SubSeq(line, m, n) = [i \in 1 .. 1 |-> word]
    BY <1>2, <1>5, <2>1
  <2>3. <<word>> = [i \in 1 .. 1 |-> word]
    BY <1>1
  <2> QED BY <2>2, <2>3
<1> QED BY <1>4, <1>5 DEF IsWord

(* parse_request_line, which looks for one blank after the other, accepts  *)
(* what the reference calls a request line, and nothing else.              *)
LEMMA RequestLines ==
    ASSUME NEW line \in Seq(Symbols)
    PROVE  RequestLineOk(line) <=> IsRequestLine(line)
<1>0. Len(line) \in Nat /\ \A k \in 1 .. Len(line) : line[k] \in Symbols
  OBVIOUS
<1>1. ASSUME RequestLineOk(line)
      PROVE  IsRequestLine(line)
  <2>1. PICK end \in 1 .. Len(line) : \E url, urlEnd, version \in end .. Len(line) :
       /\ BlankFrom(line, 1, end)
       /\ SubSeq(line, 1, end - 1) = <<"GET">>
       /\ NoBlankFrom(line, end + 1, url)
       /\ BlankFrom(line, url, urlEnd)
       /\ NoBlankFrom(line, urlEnd + 1, version)
       /\ SubSeq(line, version, Len(line)) = <<"VERSION">>
       /\ IsUrl(SubSeq(line, url, urlEnd - 1))
    BY <1>1, Zenon DEF RequestLineOk
  <2>2. PICK url, urlEnd, version \in end .. Len(line) :
       /\ BlankFrom(line, 1, end)
       /\ SubSeq(line, 1, end - 1) = <<"GET">>
       /\ NoBlankFrom(line, end + 1, url)
       /\ BlankFrom(line, url, urlEnd)
       /\ NoBlankFrom(line, urlEnd + 1, version)
       /\ SubSeq(line, version, Len(line)) = <<"VERSION">>
       /\ IsUrl(SubSeq(line, url, urlEnd - 1))
    BY <2>1, Zenon
  <2>3. end = 2 /\ line[1] = "GET"
    <3>1. PICK n \in 0 .. Len(line) : n = end - 1
      BY <1>0
    <3>2. IsWord(line, 1, n, "GET") /\ 1 \in 1 .. Len(line)
      BY <1>0, <2>2, <3>1 DEF IsWord
    <3>3. 1 = n /\ line[1] = "GET"
      BY <3>2, OneWord
    <3> QED BY <3>1, <3>3
  <2>4. version = Len(line) /\ line[Len(line)] = "VERSION"
    <3>1. version \in 1 .. Len(line) /\ Len(line) \in 0 .. Len(line)
      BY <1>0
    <3>2. IsWord(line, version, Len(line), "VERSION")
      BY <2>2 DEF IsWord
    <3> QED BY <3>1, <3>2, OneWord
  <2>5. /\ url \in 3 .. Len(line) - 2 /\ urlEnd - 1 \in 3 .. Len(line) - 2 /\ url <= urlEnd - 1
    BY <1>0, <2>2, <2>3, <2>4 DEF BlankFrom, NoBlankFrom
  <2>6. ASSUME NEW k \in 2 .. Len(line) - 1
        PROVE  (k \in url .. urlEnd - 1) <=> (line[k] # "SP")
    BY <1>0, <2>2, <2>3, <2>4, <2>5 DEF BlankFrom, NoBlankFrom
  <2> QED BY <2>2, <2>3, <2>4, <2>5, <2>6 DEF IsRequestLine
<1>2. ASSUME IsRequestLine(line)
      PROVE  RequestLineOk(line)
  <2>1. PICK i, j \in 3 .. Len(line) - 2 :
       /\ i <= j
       /\ line[1] = "GET" /\ line[Len(line)] = "VERSION"
       /\ \A k \in 2 .. Len(line) - 1 : (k \in i .. j) <=> (line[k] # "SP")
       /\ IsUrl(SubSeq(line, i, j))
    BY <1>2 DEF IsRequestLine
  <2> DEFINE end == 2
             urlEnd == j + 1
             version == Len(line)
  <2>2. end \in 1 .. Len(line) /\ i \in end .. Len(line) /\ urlEnd \in end .. Len(line)
        /\ version \in end .. Len(line) /\ urlEnd - 1 = j
    BY <1>0, <2>1
  <2>3. BlankFrom(line, 1, end) /\ NoBlankFrom(line, end + 1, i) /\ BlankFrom(line, i, urlEnd)
        /\ NoBlankFrom(line, urlEnd + 1, version)
    BY <1>0, <2>1 DEF BlankFrom, NoBlankFrom
  <2>4. SubSeq(line, 1, end - 1) = <<"GET">>
    <3>1. 1 \in 1 .. Len(line) /\ 1 \in 0 .. Len(line) /\ 1 = end - 1
      BY <1>0, <2>1
    <3>2. IsWord(line, 1, 1, "GET")
      BY <2>1, <3>1, OneWord
    <3> HIDE DEF end
    <3> QED BY <3>1, <3>2 DEF IsWord
  <2>5. SubSeq(line, version, Len(line)) = <<"VERSION">>
    <3>1. version \in 1 .. Len(line) /\ Len(line) \in 0 .. Len(line) /\ line[version] = "VERSION"
      BY <1>0, <2>1
    <3>2. IsWord(line, version, Len(line), "VERSION")
      BY <3>1, OneWord
    <3> QED BY <3>2 DEF IsWord
  <2> HIDE DEF end, urlEnd, version
  <2> QED BY <2>1, <2>2, <2>3, <2>4, <2>5 DEF RequestLineOk
<1> QED BY <1>1, <1>2

-----------------------------------------------------------------------------
(* What a text means does not depend on more of it than its lines up to    *)
(* the one that decides.                                                   *)
Breaks == {"CR", "LF"}
NoBreak(s, k, e) == \A i \in k + 1 .. e - 1 : s[i] \notin Breaks

(* The first k symbols of s are a request line and headers, none empty.    *)
Accepted(s, k) ==
    /\ k - 1 \in Ends(s)
    /\ \E f \in Ends(s) : /\ f < k /\ IsRequestLine(SubSeq(s, 1, f - 1))
                          /\ Before(Ends(s) \ {f}, f)
    /\ Before(Stray(s), k)
    /\ \A e \in Ends(s) : e < k => e - 2 \notin Ends(s)

LEMMA EndsAndStrays ==
    ASSUME NEW s \in Seq(Symbols)
    PROVE  /\ \A e \in Ends(s) : /\ e \in Nat /\ e >= 1 /\ e + 1 \in 1 .. Len(s) /\ e \in 1 .. Len(s)
                                 /\ s[e] = "CR" /\ s[e + 1] = "LF"
                                 /\ s[e] \in Breaks /\ s[e + 1] \in Breaks
                                 /\ e \notin Stray(s) /\ e + 1 \notin Stray(s) /\ e + 1 \notin Ends(s)
           /\ \A j \in Stray(s) : j \in 1 .. Len(s) /\ j \in Nat /\ s[j] \in Breaks /\ j \notin Ends(s)
           /\ Len(s) \in Nat
<1>1. Len(s) \in Nat
  OBVIOUS
<1>2. ASSUME NEW e \in Ends(s)
      PROVE  /\ e \in Nat /\ e >= 1 /\ e + 1 \in 1 .. Len(s) /\ e \in 1 .. Len(s)
             /\ s[e] = "CR" /\ s[e + 1] = "LF" /\ (e + 1) - 1 = e /\ e + 1 # 1
  BY <1>1 DEF Ends
<1>3. ASSUME NEW e \in Ends(s)
      PROVE  e \notin Stray(s) /\ e + 1 \notin Stray(s) /\ e + 1 \notin Ends(s)
  BY <1>2 DEF Ends, Stray
<1>4. ASSUME NEW j \in Stray(s)
      PROVE  j \in 1 .. Len(s) /\ j \in Nat /\ s[j] \in Breaks /\ j \notin Ends(s)
  <2>1. j \in 1 .. Len(s) /\ j \in Nat /\ s[j] \in Breaks
    BY <1>1 DEF Stray, Breaks
  <2> QED BY <1>3, <2>1
<1> QED BY <1>1, <1>2, <1>3, <1>4 DEF Breaks

(* The first line decides: it is bad, or it is accepted.                   *)
LEMMA FirstLine ==
    ASSUME NEW s \in Seq(Symbols), NEW e \in Ends(s), NoBreak(s, 0, e)
    PROVE  /\ ~ IsRequestLine(SubSeq(s, 1, e - 1)) => Meaning(s) = "BAD_REQUEST"
           /\ IsRequestLine(SubSeq(s, 1, e - 1)) => Accepted(s, e + 1)
<1>0. /\ \A e1 \in Ends(s) : /\ e1 \in Nat /\ e1 >= 1 /\ e1 + 1 \in 1 .. Len(s) /\ e1 \in 1 .. Len(s)
                            /\ s[e1] = "CR" /\ s[e1 + 1] = "LF"
                            /\ s[e1] \in Breaks /\ s[e1 + 1] \in Breaks
                            /\ e1 \notin Stray(s) /\ e1 + 1 \notin Stray(s) /\ e1 + 1 \notin Ends(s)
      /\ \A j1 \in Stray(s) : j1 \in 1 .. Len(s) /\ j1 \in Nat /\ s[j1] \in Breaks /\ j1 \notin Ends(s)
      /\ Len(s) \in Nat
  BY EndsAndStrays
<1>1. \A i \in Nat : i >= 1 /\ i < e => s[i] \notin Breaks
  <2>1. ASSUME NEW i \in Nat, i >= 1, i < e
        PROVE  s[i] \notin Breaks
    <3>1. e \in Nat
      BY <1>0, Zenon
    <3>2. i \in 0 + 1 .. e - 1
      BY <2>1, <3>1
    <3> QED BY <3>2, Zenon DEF NoBreak
  <2> QED BY <2>1
<1>2. Before(Ends(s) \ {e}, e)
  <2>1. ASSUME NEW x \in Ends(s), x # e
        PROVE  e < x
    <3>1. x \in Nat /\ e \in Nat /\ x >= 1 /\ s[x] \in Breaks
      BY <1>0
    <3>2. ~ (x < e)
      BY <1>1, <3>1
    <3> QED BY <2>1, <3>1, <3>2
  <2> QED BY <2>1 DEF Before
<1>3. Before(Stray(s), e) /\ Before(Stray(s), e + 1)
  <2>1. ASSUME NEW j \in Stray(s)
        PROVE  e < j /\ e + 1 < j
    <3>1. j # e /\ j # e + 1 /\ j \in Nat /\ e \in Nat /\ j \in 1 .. Len(s) /\ Len(s) \in Nat /\ s[j] \in Breaks
      BY <1>0, Zenon
    <3>2. j >= e
      BY <1>1, <3>1
    <3> QED BY <3>1, <3>2
  <2> QED BY <2>1 DEF Before
<1>4. ASSUME ~ IsRequestLine(SubSeq(s, 1, e - 1))
      PROVE  Meaning(s) = "BAD_REQUEST"
  <2>1. e \in {x \in Ends(s) : Before(Ends(s) \ {x}, x) /\ Before(Stray(s), x)}
    BY <1>2, <1>3
  <2> QED BY <1>4, <2>1 DEF Meaning
<1>5. ASSUME IsRequestLine(SubSeq(s, 1, e - 1))
      PROVE  Accepted(s, e + 1)
  <2>1. (e + 1) - 1 = e /\ e < e + 1
    BY <1>0
  <2>2. ASSUME NEW x \in Ends(s), x < e + 1
        PROVE  x - 2 \notin Ends(s)
    <3>1. x = e /\ e \in Nat
      <4>1. x \in Nat /\ e \in Nat
        BY <1>0
      <4> QED BY <1>2, <2>2, <4>1 DEF Before
    <3>2. x - 2 < e
      BY <3>1
    <3> QED BY <1>1, <3>2, <1>0
  <2> QED BY <1>2, <1>3, <1>5, <2>1, <2>2 DEF Accepted
<1> QED BY <1>4, <1>5

(* Another header, or the empty line, after what is accepted.              *)
LEMMA NextHeader ==
    ASSUME NEW s \in Seq(Symbols), NEW k \in Nat, Accepted(s, k), NEW e \in Ends(s), k < e,
           NoBreak(s, k, e)
    PROVE  /\ e # k + 1 => Accepted(s, e + 1)
           /\ e = k + 1 => Meaning(s) = "GET_REQUEST"
<1>0. /\ \A e1 \in Ends(s) : /\ e1 \in Nat /\ e1 >= 1 /\ e1 + 1 \in 1 .. Len(s) /\ e1 \in 1 .. Len(s)
                            /\ s[e1] = "CR" /\ s[e1 + 1] = "LF"
                            /\ s[e1] \in Breaks /\ s[e1 + 1] \in Breaks
                            /\ e1 \notin Stray(s) /\ e1 + 1 \notin Stray(s) /\ e1 + 1 \notin Ends(s)
      /\ \A j1 \in Stray(s) : j1 \in 1 .. Len(s) /\ j1 \in Nat /\ s[j1] \in Breaks /\ j1 \notin Ends(s)
      /\ Len(s) \in Nat
  BY EndsAndStrays
<1>1. \A i \in Nat : i > k /\ i < e => s[i] \notin Breaks
  <2>1. e \in Nat
    BY <1>0
  <2> QED BY <2>1 DEF NoBreak
<1>2. k - 1 \in Ends(s) /\ (\A j \in Stray(s) : k < j) /\ \A x \in Ends(s) : x < k => x - 2 \notin Ends(s)
  BY DEF Accepted, Before
<1>3. k \notin Ends(s) /\ s[k] = "LF"
  <2>1. (k - 1) + 1 = k
    OBVIOUS
  <2> QED BY <1>2, <2>1, <1>0
<1>4. PICK f \in Ends(s) : f < k /\ IsRequestLine(SubSeq(s, 1, f - 1)) /\ Before(Ends(s) \ {f}, f)
  BY DEF Accepted
<1>5. \A j \in Stray(s) : e < j /\ e + 1 < j
  <2>1. ASSUME NEW j \in Stray(s)
        PROVE  e < j /\ e + 1 < j
    <3>1. j # e /\ j # e + 1 /\ k < j /\ ~ (k < j /\ j < e) /\ j \in Nat /\ e \in Nat
      BY <1>1, <1>2, <1>0
    <3> QED BY <3>1
  <2> QED BY <2>1
<1>6. ASSUME e # k + 1
      PROVE  Accepted(s, e + 1)
  <2>0. e \in Nat /\ f \in Nat
    BY <1>0
  <2>1. (e + 1) - 1 = e /\ f < e + 1 /\ e \in Nat
    BY <1>4, <2>0
  <2>2. ASSUME NEW x \in Ends(s), x < e + 1
        PROVE  x - 2 \notin Ends(s)
    <3>1. CASE x < k
      BY <1>2, <3>1
    <3>2. CASE x >= k
      <4>1. x = e
        BY <1>1, <1>3, <2>1, <2>2, <3>2, <1>0
      <4>2. e - 2 >= k /\ e - 2 \in Nat /\ e - 2 < e
        BY <1>6, <2>1
      <4>3. e - 2 = k \/ s[e - 2] \notin Breaks
        BY <1>1, <4>2
      <4>4. e - 2 \in Ends(s) => s[e - 2] \in Breaks
        BY <1>0
      <4> QED BY <1>3, <4>1, <4>3, <4>4
    <3>3. x \in Nat
      BY <1>0
    <3> QED BY <3>1, <3>2, <3>3
  <2> QED BY <1>4, <1>5, <2>1, <2>2 DEF Accepted, Before
<1>7. ASSUME e = k + 1
      PROVE  Meaning(s) = "GET_REQUEST"
  <2>1. ASSUME NEW g \in Ends(s), Before(Ends(s) \ {g}, g)
        PROVE  IsRequestLine(SubSeq(s, 1, g - 1))
    <3>0. g \in Nat /\ f \in Nat
      BY <1>0
    <3>1. g = f
      BY <1>4, <2>1, <3>0 DEF Before
    <3> QED BY <1>4, <3>1
  <2>2. e - 2 \in Ends(s) /\ Before(Stray(s), e)
    BY <1>2, <1>5, <1>7 DEF Before
  <2> QED BY <2>1, <2>2 DEF Meaning
<1> QED BY <1>6, <1>7

(* A line end that is none spoils what follows it.                         *)
LEMMA StrayFirst ==
    ASSUME NEW s \in Seq(Symbols), NEW p \in Stray(s), NoBreak(s, 0, p)
    PROVE  Meaning(s) = "BAD_REQUEST"
<1>0. /\ \A e1 \in Ends(s) : /\ e1 \in Nat /\ e1 >= 1 /\ e1 + 1 \in 1 .. Len(s) /\ e1 \in 1 .. Len(s)
                            /\ s[e1] = "CR" /\ s[e1 + 1] = "LF"
                            /\ s[e1] \in Breaks /\ s[e1 + 1] \in Breaks
                            /\ e1 \notin Stray(s) /\ e1 + 1 \notin Stray(s) /\ e1 + 1 \notin Ends(s)
      /\ \A j1 \in Stray(s) : j1 \in 1 .. Len(s) /\ j1 \in Nat /\ s[j1] \in Breaks /\ j1 \notin Ends(s)
      /\ Len(s) \in Nat
  BY EndsAndStrays
<1>1. \A i \in Nat : i >= 1 /\ i < p => s[i] \notin Breaks
  BY <1>0 DEF NoBreak
<1>2. \A e \in Ends(s) : ~ Before(Stray(s), e)
  BY <1>1, <1>0 DEF Before
<1> QED BY <1>2 DEF Meaning

LEMMA StrayLater ==
    ASSUME NEW s \in Seq(Symbols), NEW k \in Nat, Accepted(s, k), NEW p \in Stray(s),
           NoBreak(s, k, p)
    PROVE  Meaning(s) = "BAD_REQUEST"
<1>0. /\ \A e1 \in Ends(s) : /\ e1 \in Nat /\ e1 >= 1 /\ e1 + 1 \in 1 .. Len(s) /\ e1 \in 1 .. Len(s)
                            /\ s[e1] = "CR" /\ s[e1 + 1] = "LF"
                            /\ s[e1] \in Breaks /\ s[e1 + 1] \in Breaks
                            /\ e1 \notin Stray(s) /\ e1 + 1 \notin Stray(s) /\ e1 + 1 \notin Ends(s)
      /\ \A j1 \in Stray(s) : j1 \in 1 .. Len(s) /\ j1 \in Nat /\ s[j1] \in Breaks /\ j1 \notin Ends(s)
      /\ Len(s) \in Nat
  BY EndsAndStrays
<1>1. \A i \in Nat : i > k /\ i < p => s[i] \notin Breaks
  BY <1>0 DEF NoBreak
<1>2. k - 1 \in Ends(s) /\ (\A j \in Stray(s) : k < j) /\ \A x \in Ends(s) : x < k => x - 2 \notin Ends(s)
  BY DEF Accepted, Before
<1>3. k \notin Ends(s)
  <2>1. (k - 1) + 1 = k
    OBVIOUS
  <2> QED BY <1>2, <2>1, <1>0
<1>4. PICK f \in Ends(s) : f < k /\ IsRequestLine(SubSeq(s, 1, f - 1)) /\ Before(Ends(s) \ {f}, f)
  BY DEF Accepted
<1>5. ASSUME NEW g \in Ends(s), Before(Ends(s) \ {g}, g)
      PROVE  IsRequestLine(SubSeq(s, 1, g - 1))
  <2>0. g \in Nat /\ f \in Nat
    BY <1>0
  <2>1. g = f
    BY <1>4, <1>5, <2>0 DEF Before
  <2> QED BY <1>4, <2>1
<1>6. ASSUME NEW e \in Ends(s), e - 2 \in Ends(s), Before(Stray(s), e)
      PROVE  FALSE
  <2>1. e < p /\ e \in Nat /\ s[e] \in Breaks
    BY <1>6, <1>0 DEF Before
  <2>2. ~ (e > k) /\ e # k
    BY <1>1, <1>3, <2>1
  <2>3. e < k
    BY <2>1, <2>2
  <2> QED BY <1>2, <1>6, <2>3
<1> QED BY <1>5, <1>6 DEF Meaning

-----------------------------------------------------------------------------
(* A set of naturals has a least element.                                  *)
Less == {ss \in Nat \X Nat : ss[1] < ss[2]}

LEMMA LessIsWellFounded == IsWellFoundedOn(Less, Nat)
BY NatLessThanWellFounded, Zenon DEF OpToRel, Less

LEMMA LeastPlace ==
    ASSUME NEW S, S \subseteq Nat, S # {}
    PROVE  \E m \in S : \A x \in S : m <= x
<1>1. PICK m \in S : \A x \in S : ~ (<<x, m>> \in Less)
  BY LessIsWellFounded, WFMin
<1>2. \A x \in S : ~ (x < m)
  BY <1>1 DEF Less
<1> QED BY <1>2

(* Up to the second segment, what the parser has consumed is a request     *)
(* line and headers, and it has seen no line end in the current line.      *)
Whole == segments <= 2 /\ taken <= BUFFER_SIZE

Parsed ==
    /\ NoBreak(text, start_line, checked_index + 1)
    /\ check_state = "REQUEST_LINE" => start_line = 0
    /\ check_state = "HEADER" => start_line > 0 /\ Accepted(text, start_line)
    /\ start_line > 0 => buffer[start_line - 1] = "NUL"

ParsedInv ==
    /\ checked_index <= taken /\ read_index <= taken
    /\ reply # <<>> => pc = "closed"
    /\ Whole /\ pc # "closed" => Parsed
    /\ Whole /\ reply # <<>> => result = Meaning(text)

VerdictInv == IntactInv /\ ParsedInv

LEMMA VerdictTypes ==
    ASSUME VerdictInv
    PROVE  /\ text \in Seq(Symbols) /\ Len(text) \in Nat /\ taken \in Nat /\ taken <= Len(text)
           /\ BUFFER_SIZE \in Nat /\ read_index \in Nat /\ read_index <= BUFFER_SIZE
           /\ checked_index \in Nat /\ checked_index <= BUFFER_SIZE
           /\ start_line \in Nat /\ start_line <= checked_index
           /\ checked_index <= taken /\ read_index <= taken
BY HttpAssumption DEF VerdictInv, IntactInv, TypeOK, ParsedInv

(* Where parse_line stops there is the first line end of the current line. *)
LEMMA StopInText ==
    ASSUME VerdictInv, Whole, pc = "parse", NEW i, StopsAt(i)
    PROVE  /\ i \in Nat /\ start_line <= i /\ checked_index <= i /\ i < read_index
           /\ i + 1 \in 1 .. Len(text) /\ i + 1 \in start_line + 1 .. Len(text)
           /\ text[i + 1] = buffer[i] /\ buffer[i] \in Breaks
           /\ NoBreak(text, start_line, i + 1)
           /\ i + 1 < read_index => i + 2 \in 1 .. Len(text) /\ text[i + 2] = buffer[i + 1]
           /\ \A j \in start_line .. i - 1 : buffer[j] = text[j + 1]
<1>1. /\ i \in Nat /\ checked_index <= i /\ start_line <= i /\ i < read_index /\ i < taken
      /\ buffer[i] \in Breaks /\ \A j \in checked_index .. i - 1 : buffer[j] \notin Breaks
  BY VerdictTypes DEF StopsAt, Breaks
<1>2. \A j \in start_line .. taken - 1 : buffer[j] = text[j + 1]
  BY DEF VerdictInv, IntactInv, TextIntact, Whole
<1>3. text[i + 1] = buffer[i] /\ i + 1 \in 1 .. Len(text) /\ i + 1 \in start_line + 1 .. Len(text)
  <2>1. i \in start_line .. taken - 1
    BY <1>1, VerdictTypes
  <2> QED BY <1>1, <1>2, <2>1, VerdictTypes
<1>4. i + 1 < read_index => i + 2 \in 1 .. Len(text) /\ text[i + 2] = buffer[i + 1]
  <2>1. ASSUME i + 1 < read_index
        PROVE  i + 2 \in 1 .. Len(text) /\ text[i + 2] = buffer[i + 1]
    <3>1. i + 1 \in start_line .. taken - 1 /\ (i + 1) + 1 = i + 2 /\ i + 2 \in 1 .. Len(text)
      BY <1>1, <2>1, VerdictTypes
    <3> QED BY <1>2, <3>1
  <2> QED BY <2>1
<1>5. ASSUME NEW j \in start_line + 1 .. i
      PROVE  text[j] \notin Breaks
  <2>1. Parsed
    BY DEF VerdictInv, ParsedInv
  <2>2. CASE j <= checked_index
    <3>1. j \in start_line + 1 .. (checked_index + 1) - 1
      BY <1>1, <2>2, VerdictTypes
    <3> QED BY <2>1, <3>1 DEF Parsed, NoBreak
  <2>3. CASE j > checked_index
    <3>1. j - 1 \in checked_index .. i - 1 /\ j - 1 \in start_line .. taken - 1 /\ (j - 1) + 1 = j
      BY <1>1, <2>3, VerdictTypes
    <3> QED BY <1>1, <1>2, <3>1
  <2> QED BY <1>1, <2>2, <2>3, VerdictTypes
<1>6. NoBreak(text, start_line, i + 1)
  <2>1. (i + 1) - 1 = i
    BY <1>1
  <2> QED BY <1>5, <2>1 DEF NoBreak
<1>7. \A j \in start_line .. i - 1 : j \in start_line .. taken - 1
  BY <1>1, VerdictTypes
<1> QED BY <1>1, <1>2, <1>3, <1>4, <1>6, <1>7

(* In front of the current line there is the LF of the one before it.      *)
LEMMA LineBefore ==
    ASSUME VerdictInv, Whole, pc = "parse", start_line > 0
    PROVE  /\ check_state = "HEADER" /\ Accepted(text, start_line)
           /\ text[start_line] = "LF" /\ buffer[start_line - 1] = "NUL"
<1>1. check_state = "HEADER" /\ Accepted(text, start_line) /\ buffer[start_line - 1] = "NUL"
  BY VerdictTypes DEF VerdictInv, IntactInv, ParsedInv, Parsed, TypeOK
<1>2. start_line - 1 \in Ends(text) /\ (start_line - 1) + 1 = start_line
  BY <1>1, VerdictTypes DEF Accepted
<1>3. text[(start_line - 1) + 1] = "LF"
  BY <1>2, VerdictTypes, EndsAndStrays
<1> QED BY <1>1, <1>2, <1>3

(* A good line ends in a CR with its LF.                                   *)
LEMMA GoodEnd ==
    ASSUME VerdictInv, Whole, pc = "parse", NEW i, StopsAt(i), LineOkAt(i)
    PROVE  /\ buffer[i] = "CR" /\ CrOf(i) = i /\ i + 1 < read_index
           /\ i + 1 \in Ends(text) /\ NoBreak(text, start_line, i + 1)
<1>1. buffer[i] = "CR"
  <2>1. SUFFICES ASSUME buffer[i] # "CR"
                 PROVE  FALSE
    OBVIOUS
  <2>2. i > 1 /\ buffer[i - 1] = "CR"
    BY <2>1 DEF LineOkAt
  <2>3. CASE i > start_line
    <3>1. i - 1 \in start_line .. i - 1 /\ (i - 1) + 1 = i /\ i \in start_line + 1 .. (i + 1) - 1
      BY <2>3, VerdictTypes, StopInText
    <3>2. buffer[i - 1] = text[i]
      BY <3>1, StopInText
    <3>3. text[i] \notin Breaks
      BY <3>1, StopInText DEF NoBreak
    <3> QED BY <2>2, <3>2, <3>3 DEF Breaks
  <2>4. CASE i = start_line
    <3>1. start_line > 0
      BY <2>2, <2>4, VerdictTypes
    <3> QED BY <2>2, <2>4, <3>1, LineBefore
  <2> QED BY <2>3, <2>4, VerdictTypes, StopInText
<1>2. i + 1 # read_index /\ buffer[i + 1] = "LF"
  BY <1>1 DEF LineOkAt
<1>3. i + 1 < read_index
  BY <1>2, VerdictTypes, StopInText
<1>4. i + 1 \in 1 .. Len(text) - 1 /\ (i + 1) + 1 = i + 2 /\ text[i + 1] = "CR" /\ text[i + 2] = "LF"
  BY <1>1, <1>2, <1>3, VerdictTypes, StopInText
<1> QED BY <1>1, <1>3, <1>4, StopInText DEF CrOf, Ends

(* A bad one is a stray CR or LF of the text, the first there is.          *)
LEMMA BadEnd ==
    ASSUME VerdictInv, Whole, pc = "parse", NEW i, StopsAt(i), ~ OpenAt(i), ~ LineOkAt(i)
    PROVE  i + 1 \in Stray(text) /\ NoBreak(text, start_line, i + 1)
<1>1. CASE buffer[i] = "CR"
  <2>1. i + 1 # read_index /\ buffer[i + 1] # "LF"
    BY <1>1 DEF OpenAt, LineOkAt
  <2>2. i + 1 < read_index
    BY <2>1, VerdictTypes, StopInText
  <2>3. /\ text[i + 1] = "CR" /\ text[i + 2] # "LF" /\ i + 1 \in 1 .. Len(text) /\ i + 1 < Len(text)
        /\ (i + 1) + 1 = i + 2
    BY <1>1, <2>1, <2>2, VerdictTypes, StopInText
  <2>4. i + 1 \notin Ends(text)
    BY <2>3 DEF Ends
  <2> QED BY <2>3, <2>4, StopInText DEF Stray
<1>2. CASE buffer[i] # "CR"
  <2>1. text[i + 1] = "LF" /\ ~ (i > 1 /\ buffer[i - 1] = "CR") /\ i + 1 \in 1 .. Len(text)
    BY <1>2, StopInText DEF LineOkAt, Breaks
  <2>2. i + 1 = 1 \/ text[(i + 1) - 1] # "CR"
    <3>1. i \in Nat /\ (i + 1) - 1 = i
      BY StopInText
    <3>2. CASE i = 0
      BY <3>1, <3>2
    <3>3. CASE i > start_line
      <4>1. i \in start_line + 1 .. (i + 1) - 1
        BY <3>1, <3>3, VerdictTypes
      <4>2. text[i] \notin Breaks
        BY <4>1, StopInText DEF NoBreak
      <4> QED BY <3>1, <4>2 DEF Breaks
    <3>4. CASE i = start_line /\ i # 0
      <4>1. start_line > 0
        BY <3>1, <3>4
      <4> QED BY <3>1, <3>4, <4>1, LineBefore
    <3> QED BY <3>1, <3>2, <3>3, <3>4, VerdictTypes, StopInText
  <2> QED BY <2>1, <2>2, StopInText DEF Stray
<1> QED BY <1>1, <1>2

(* What parse_request_line is given is the first line of the text.         *)
LEMMA FirstLineIs ==
    ASSUME VerdictInv, Whole, pc = "parse", NEW i \in 0 .. BUFFER_SIZE - 1, StopsAt(i), CutLine(i),
           start_line = 0
    PROVE  LineAt(buffer', 0) = SubSeq(text, 1, i)
<1>1. CrOf(i) = i /\ i \in Nat /\ i + 1 \in 1 .. Len(text) /\ i + 1 < read_index
      /\ NoBreak(text, 0, i + 1) /\ \A j \in 0 .. i - 1 : buffer[j] = text[j + 1]
  BY GoodEnd, StopInText DEF CutLine
<1>2. buffer' = [buffer EXCEPT ![i] = "NUL", ![i + 1] = "NUL"] /\ DOMAIN buffer = 0 .. BUFFER_SIZE - 1
  BY <1>1 DEF CutLine, VerdictInv, IntactInv, TypeOK
<1>3. \A j \in 1 .. Len(text) : text[j] \in Symbols /\ text[j] # "NUL"
  BY VerdictTypes DEF Symbols, Words
<1>4. ASSUME NEW j \in 0 .. i - 1
      PROVE  buffer'[j] = text[j + 1] /\ buffer'[j] # "NUL"
  <2>1. j # i /\ j # i + 1 /\ j \in 0 .. BUFFER_SIZE - 1 /\ j + 1 \in 1 .. Len(text)
    BY <1>1, VerdictTypes
  <2> QED BY <1>1, <1>2, <1>3, <2>1
<1>5. i \in DOMAIN buffer' /\ buffer'[i] = "NUL" /\ i >= 0
  BY <1>1, <1>2
<1> DEFINE b == buffer'
           nul == CHOOSE k \in DOMAIN b : /\ k >= 0 /\ b[k] = "NUL"
                                          /\ \A j \in 0 .. k - 1 : b[j] # "NUL"
<1>6. nul = i
  <2>1. /\ nul \in DOMAIN b /\ nul >= 0 /\ b[nul] = "NUL"
        /\ \A j \in 0 .. nul - 1 : b[j] # "NUL"
    BY <1>4, <1>5
  <2> HIDE DEF nul
  <2>2. nul \in Nat
    BY <1>2, <2>1
  <2>3. ~ (nul < i)
    BY <1>1, <1>4, <2>1, <2>2
  <2>4. ~ (i < nul)
    BY <1>1, <1>5, <2>1, <2>2
  <2> QED BY <1>1, <2>2, <2>3, <2>4
<1>7. LineAt(b, 0) = [k \in 1 .. nul - 0 |-> b[0 + k - 1]]
  BY Zenon DEF LineAt
<1> HIDE DEF nul, b
<1>8. [k \in 1 .. nul - 0 |-> b[0 + k - 1]] = [k \in 1 .. i |-> text[k]]
  <2>1. \A k \in 1 .. i : k - 1 \in 0 .. i - 1 /\ (k - 1) + 1 = k /\ 0 + k - 1 = k - 1
    BY <1>1
  <2>2. \A k \in 1 .. i : b[0 + k - 1] = text[k]
    BY <1>4, <2>1 DEF b
  <2> QED BY <1>1, <1>6, <2>2
<1>9. SubSeq(text, 1, i) = [k \in 1 .. i |-> text[k]]
  <2>1. SubSeq(text, 1, i) = [k \in 1 .. i - 1 + 1 |-> text[k + 1 - 1]]
    BY <1>1, VerdictTypes
  <2>2. i - 1 + 1 = i /\ \A k \in 1 .. i : k + 1 - 1 = k
    BY <1>1
  <2> QED BY <2>1, <2>2
<1> QED BY <1>7, <1>8, <1>9 DEF b

LEMMA CutBehindRead ==
    ASSUME TypeOK, NEW i, StopsAt(i), CutLine(i)
    PROVE  checked_index' = start_line' /\ checked_index' = CrOf(i) + 2 /\ checked_index' <= read_index
<1>1. CrOf(i) \in Int /\ CrOf(i) + 2 <= read_index
  BY StopInBuffer, HttpAssumption DEF TypeOK, CutLine, LineOkAt, CrOf, StopsAt
<1> QED BY <1>1 DEF CutLine, NextLine

(* Once a line is cut off, the next one is new.                            *)
LEMMA CutStartsLine ==
    ASSUME VerdictInv, Whole, pc = "parse", NEW i \in 0 .. BUFFER_SIZE - 1, StopsAt(i), CutLine(i)
    PROVE  /\ start_line' = i + 2 /\ checked_index' = i + 2
           /\ NoBreak(text, i + 2, checked_index' + 1)
           /\ buffer'[start_line' - 1] = "NUL"
           /\ buffer'[i] = "NUL"
           /\ start_line < i => buffer'[start_line] # "NUL"
<1>1. CrOf(i) = i /\ i \in Nat /\ i + 1 < read_index /\ start_line <= i
      /\ \A j \in start_line .. i - 1 : buffer[j] = text[j + 1]
  BY GoodEnd, StopInText DEF CutLine
<1>2. start_line' = i + 2 /\ checked_index' = i + 2 /\ start_line' - 1 = i + 1
  BY <1>1 DEF CutLine, NextLine
<1>3. NoBreak(text, i + 2, checked_index' + 1)
  BY <1>1, <1>2 DEF NoBreak
<1>4. buffer' = [buffer EXCEPT ![i] = "NUL", ![i + 1] = "NUL"] /\ DOMAIN buffer = 0 .. BUFFER_SIZE - 1
  BY <1>1 DEF CutLine, VerdictInv, IntactInv, TypeOK
<1>5. buffer'[i] = "NUL" /\ buffer'[i + 1] = "NUL"
  <2>1. i + 1 \in 0 .. BUFFER_SIZE - 1 /\ i \in 0 .. BUFFER_SIZE - 1 /\ i # i + 1
    BY <1>1, VerdictTypes
  <2> QED BY <1>4, <2>1
<1>6. ASSUME start_line < i
      PROVE  buffer'[start_line] # "NUL"
  <2>1. start_line \in start_line .. i - 1 /\ start_line # i /\ start_line # i + 1
        /\ start_line \in 0 .. BUFFER_SIZE - 1 /\ start_line + 1 \in 1 .. Len(text)
    BY <1>1, <1>6, VerdictTypes
  <2>2. buffer'[start_line] = text[start_line + 1]
    BY <1>1, <1>4, <2>1
  <2>3. text[start_line + 1] \in Symbols
    BY <2>1, VerdictTypes
  <2> QED BY <2>2, <2>3 DEF Symbols, Words
<1> QED BY <1>2, <1>3, <1>5, <1>6

LEMMA RequestLineStep ==
    ASSUME VerdictInv, NEW i \in 0 .. BUFFER_SIZE - 1, ParseRequestLine(i)
    PROVE  ParsedInv'
<1>1. /\ pc = "parse" /\ check_state = "REQUEST_LINE" /\ StopsAt(i) /\ CutLine(i)
      /\ text' = text /\ taken' = taken /\ segments' = segments /\ read_index' = read_index
      /\ reply = <<>>
  BY DEF ParseRequestLine, Answer, GoOn, textVars, VerdictInv, ParsedInv
<1>2. checked_index' <= taken' /\ read_index' <= taken'
  <2>1. checked_index' <= read_index /\ checked_index' \in Nat
    <3>1. checked_index' \in 0 .. BUFFER_SIZE /\ checked_index' <= read_index
      BY <1>1, CutBehindRead, CutKeepsIndices DEF VerdictInv, IntactInv
    <3> QED BY <3>1, VerdictTypes
  <2> QED BY <1>1, <2>1, VerdictTypes
<1>3. reply' # <<>> => pc' = "closed"
  BY <1>1 DEF ParseRequestLine, Answer, GoOn
<1>4. ASSUME Whole
      PROVE  /\ pc' # "closed" => Parsed'
             /\ reply' # <<>> => result' = Meaning(text)
  <2>1. start_line = 0
    BY <1>1, <1>4 DEF VerdictInv, ParsedInv, Parsed
  <2>2. LineAt(buffer', start_line) = SubSeq(text, 1, i)
    BY <1>1, <1>4, <2>1, FirstLineIs
  <2>3. i \in Nat /\ i + 1 \in Ends(text) /\ NoBreak(text, 0, i + 1) /\ (i + 1) - 1 = i /\ (i + 1) + 1 = i + 2
        /\ i \in 0 .. Len(text)
    BY <1>1, <1>4, <2>1, GoodEnd, StopInText, VerdictTypes DEF CutLine
  <2>4. SubSeq(text, 1, i) \in Seq(Symbols)
    BY <2>3, VerdictTypes
  <2>5. RequestLineOk(SubSeq(text, 1, i)) <=> IsRequestLine(SubSeq(text, 1, i))
    BY <2>4, RequestLines
  <2>6. /\ ~ IsRequestLine(SubSeq(text, 1, i)) => Meaning(text) = "BAD_REQUEST"
        /\ IsRequestLine(SubSeq(text, 1, i)) => Accepted(text, i + 2)
    <3>1. /\ ~ IsRequestLine(SubSeq(text, 1, (i + 1) - 1)) => Meaning(text) = "BAD_REQUEST"
          /\ IsRequestLine(SubSeq(text, 1, (i + 1) - 1)) => Accepted(text, (i + 1) + 1)
      BY <2>3, VerdictTypes, FirstLine
    <3> QED BY <2>3, <3>1
  <2>7. \/ RequestLineOk(SubSeq(text, 1, i)) /\ check_state' = "HEADER" /\ GoOn
        \/ ~ RequestLineOk(SubSeq(text, 1, i)) /\ Answer("BAD_REQUEST")
    BY <2>2 DEF ParseRequestLine
  <2>8. CASE RequestLineOk(SubSeq(text, 1, i)) /\ check_state' = "HEADER" /\ GoOn
    <3>1. reply' = <<>> /\ Accepted(text, i + 2)
      BY <1>1, <2>5, <2>6, <2>8 DEF GoOn
    <3>2. /\ start_line' = i + 2 /\ NoBreak(text, i + 2, checked_index' + 1)
          /\ buffer'[start_line' - 1] = "NUL"
      BY <1>1, <1>4, CutStartsLine
    <3>3. start_line' > 0
      BY <2>3, <3>2
    <3>4. Parsed'
      BY <1>1, <2>8, <3>1, <3>2, <3>3 DEF Parsed
    <3> QED BY <3>1, <3>4
  <2>9. CASE ~ RequestLineOk(SubSeq(text, 1, i)) /\ Answer("BAD_REQUEST")
    BY <2>5, <2>6, <2>9 DEF Answer
  <2> QED BY <2>7, <2>8, <2>9
<1> QED BY <1>1, <1>2, <1>3, <1>4 DEF ParsedInv, Whole

LEMMA HeaderStep ==
    ASSUME VerdictInv, NEW i \in 0 .. BUFFER_SIZE - 1, ParseHeaders(i)
    PROVE  ParsedInv'
<1>1. /\ pc = "parse" /\ check_state = "HEADER" /\ StopsAt(i) /\ CutLine(i)
      /\ text' = text /\ taken' = taken /\ segments' = segments /\ read_index' = read_index
      /\ reply = <<>> /\ check_state' = "HEADER"
      /\ IF buffer'[start_line] = "NUL" THEN Answer("GET_REQUEST") ELSE GoOn
  BY DEF ParseHeaders, Answer, GoOn, textVars, VerdictInv, ParsedInv
<1>2. checked_index' <= taken' /\ read_index' <= taken'
  <2>1. checked_index' <= read_index /\ checked_index' \in Nat
    <3>1. checked_index' \in 0 .. BUFFER_SIZE /\ checked_index' <= read_index
      BY <1>1, CutBehindRead, CutKeepsIndices DEF VerdictInv, IntactInv
    <3> QED BY <3>1, VerdictTypes
  <2> QED BY <1>1, <2>1, VerdictTypes
<1>3. reply' # <<>> => pc' = "closed"
  BY <1>1 DEF Answer, GoOn
<1>4. ASSUME Whole
      PROVE  /\ pc' # "closed" => Parsed'
             /\ reply' # <<>> => result' = Meaning(text)
  <2>1. start_line > 0 /\ Accepted(text, start_line)
    BY <1>1, <1>4 DEF VerdictInv, ParsedInv, Parsed
  <2>2. i \in Nat /\ i + 1 \in Ends(text) /\ NoBreak(text, start_line, i + 1) /\ (i + 1) + 1 = i + 2
        /\ start_line < i + 1 /\ start_line <= i /\ start_line \in Nat
    <3>1. LineOkAt(i)
      BY <1>1 DEF CutLine
    <3>2. i + 1 \in Ends(text) /\ NoBreak(text, start_line, i + 1)
      BY <1>1, <1>4, <3>1, GoodEnd
    <3>3. i \in Nat /\ start_line <= i
      BY <1>1, <1>4, StopInText
    <3>4. start_line \in Nat
      BY VerdictTypes
    <3> QED BY <3>2, <3>3, <3>4
  <2>3. /\ i # start_line => Accepted(text, i + 2)
        /\ i = start_line => Meaning(text) = "GET_REQUEST"
    <3>1. /\ i + 1 # start_line + 1 => Accepted(text, (i + 1) + 1)
          /\ i + 1 = start_line + 1 => Meaning(text) = "GET_REQUEST"
      BY <2>1, <2>2, VerdictTypes, NextHeader
    <3>2. i + 1 = start_line + 1 <=> i = start_line
      BY <2>2
    <3> QED BY <2>2, <3>1, <3>2
  <2>4. /\ start_line' = i + 2 /\ NoBreak(text, i + 2, checked_index' + 1)
        /\ buffer'[start_line' - 1] = "NUL"
        /\ buffer'[i] = "NUL"
        /\ start_line < i => buffer'[start_line] # "NUL"
    BY <1>1, <1>4, CutStartsLine
  <2>5. CASE i = start_line
    <3>1. Answer("GET_REQUEST")
      BY <1>1, <2>4, <2>5
    <3> QED BY <2>3, <2>5, <3>1 DEF Answer
  <2>6. CASE i # start_line
    <3>1. GoOn /\ start_line' > 0
      BY <1>1, <2>2, <2>4, <2>6
    <3>2. Parsed' /\ reply' = <<>>
      BY <1>1, <2>3, <2>4, <2>6, <3>1 DEF Parsed, GoOn
    <3> QED BY <3>2
  <2> QED BY <2>5, <2>6
<1> QED BY <1>1, <1>2, <1>3, <1>4 DEF ParsedInv, Whole

LEMMA BadLineStep ==
    ASSUME VerdictInv, NEW i \in 0 .. BUFFER_SIZE - 1, LineBad(i)
    PROVE  ParsedInv'
<1>1. /\ pc = "parse" /\ StopsAt(i) /\ ~ OpenAt(i) /\ ~ LineOkAt(i)
      /\ text' = text /\ taken' = taken /\ segments' = segments /\ read_index' = read_index
      /\ checked_index' = i /\ pc' = "closed" /\ result' = "BAD_REQUEST"
  BY DEF LineBad, Answer, textVars
<1>2. checked_index' <= taken' /\ read_index' <= taken'
  BY <1>1, VerdictTypes DEF StopsAt
<1>3. ASSUME Whole
      PROVE  Meaning(text) = "BAD_REQUEST"
  <2>1. i + 1 \in Stray(text) /\ NoBreak(text, start_line, i + 1)
    BY <1>1, <1>3, BadEnd
  <2>2. CASE start_line = 0
    BY <2>1, <2>2, VerdictTypes, StrayFirst
  <2>3. CASE start_line # 0
    <3>1. start_line > 0
      BY <2>3, VerdictTypes
    <3>2. Accepted(text, start_line)
      BY <1>1, <1>3, <3>1, LineBefore
    <3> QED BY <2>1, <3>2, VerdictTypes, StrayLater
  <2> QED BY <2>2, <2>3
<1> QED BY <1>1, <1>2, <1>3 DEF ParsedInv, Whole

LEMMA OpenLineStep ==
    ASSUME VerdictInv, LineOpen
    PROVE  ParsedInv'
<1>1. /\ pc = "parse" /\ pc' = "recv" /\ reply' = reply /\ start_line' = start_line
      /\ check_state' = check_state /\ buffer' = buffer
      /\ text' = text /\ taken' = taken /\ segments' = segments /\ read_index' = read_index
      /\ reply = <<>>
  BY DEF LineOpen, textVars, VerdictInv, ParsedInv
<1>2. CASE /\ \A i \in 0 .. BUFFER_SIZE - 1 : ~ StopsAt(i)
           /\ checked_index' = IF checked_index < read_index THEN read_index ELSE checked_index
  <2>1. checked_index' <= taken
    BY <1>2, VerdictTypes
  <2>2. ASSUME NEW i \in checked_index .. read_index - 1
        PROVE  buffer[i] \notin Breaks
    <3> DEFINE B == {j \in checked_index .. read_index - 1 : buffer[j] \in Breaks}
    <3>1. SUFFICES ASSUME B # {}
                   PROVE  FALSE
      BY <3>1
    <3>2. B \subseteq Nat
      BY VerdictTypes
    <3>3. PICK m \in B : \A j \in B : m <= j
      BY <3>1, <3>2, LeastPlace
    <3>4. m \in checked_index .. read_index - 1 /\ buffer[m] \in Breaks /\ m \in 0 .. BUFFER_SIZE - 1
      BY <3>3, VerdictTypes
    <3>5. \A j \in checked_index .. m - 1 : buffer[j] \notin Breaks
      <4>1. ASSUME NEW j \in checked_index .. m - 1, buffer[j] \in Breaks
            PROVE  FALSE
        <5>1. j \in B /\ ~ (m <= j)
          BY <3>4, <4>1, VerdictTypes
        <5> QED BY <3>3, <5>1
      <4> QED BY <4>1
    <3>6. StopsAt(m)
      BY <3>4, <3>5 DEF StopsAt, Breaks
    <3> QED BY <1>2, <3>4, <3>6
  <2>3. ASSUME Whole
        PROVE  NoBreak(text, start_line, checked_index' + 1)
    <3>1. NoBreak(text, start_line, checked_index + 1)
      BY <1>1, <2>3 DEF VerdictInv, ParsedInv, Parsed
    <3>2. \A j \in start_line .. taken - 1 : buffer[j] = text[j + 1]
      BY <2>3 DEF VerdictInv, IntactInv, TextIntact, Whole
    <3>3. ASSUME NEW j \in start_line + 1 .. (checked_index' + 1) - 1
          PROVE  text[j] \notin Breaks
      <4>1. CASE j <= checked_index
        <5>1. j \in start_line + 1 .. (checked_index + 1) - 1
          BY <1>2, <4>1, VerdictTypes
        <5> QED BY <3>1, <5>1 DEF NoBreak
      <4>2. CASE j > checked_index
        <5>1. j - 1 \in checked_index .. read_index - 1 /\ j - 1 \in start_line .. taken - 1
              /\ (j - 1) + 1 = j
          BY <1>2, <4>2, VerdictTypes
        <5> QED BY <2>2, <3>2, <5>1
      <4> QED BY <1>2, <4>1, <4>2, VerdictTypes
    <3> QED BY <3>3 DEF NoBreak
  <2> QED BY <1>1, <2>1, <2>3, VerdictTypes DEF VerdictInv, ParsedInv, Parsed, Whole
<1>3. ASSUME NEW i \in 0 .. BUFFER_SIZE - 1, StopsAt(i), OpenAt(i), checked_index' = i
      PROVE  ParsedInv'
  <2>1. checked_index' <= taken
    BY <1>3, VerdictTypes DEF StopsAt
  <2>2. Whole => NoBreak(text, start_line, checked_index' + 1)
    BY <1>1, <1>3, StopInText
  <2> QED BY <1>1, <2>1, <2>2, VerdictTypes DEF VerdictInv, ParsedInv, Parsed, Whole
<1> QED BY <1>2, <1>3 DEF LineOpen

LEMMA VerdictStep == VerdictInv /\ [Next]_vars => VerdictInv'
<1> SUFFICES ASSUME VerdictInv, [Next]_vars
             PROVE  ParsedInv'
  BY IntactStep DEF VerdictInv
<1>1. CASE Accept
  BY <1>1 DEF Accept, textVars, parserVars, VerdictInv, ParsedInv, Parsed, Whole
<1>2. CASE ClientCloses
  BY <1>2 DEF ClientCloses, parserVars, VerdictInv, ParsedInv, Parsed, Whole
<1>3. ASSUME NEW n \in 1 .. Len(text) - taken, Receive(n)
      PROVE  ParsedInv'
  <2>1. /\ pc = "recv" /\ pc' = "parse" /\ reply' = reply /\ reply = <<>> /\ text' = text
        /\ taken' = taken + n /\ read_index' = n /\ segments' = segments + 1
        /\ checked_index' = checked_index /\ start_line' = start_line /\ check_state' = check_state
        /\ n \in Nat
    BY <1>3, VerdictTypes DEF Receive, parserVars, VerdictInv, ParsedInv
  <2>2. checked_index' <= taken' /\ read_index' <= taken'
    BY <2>1, VerdictTypes
  <2>3. ASSUME Whole'
        PROVE  Parsed'
    <3>1. Whole /\ read_index = taken
      BY <1>3, <2>1, <2>3, VerdictTypes
      DEF Receive, VerdictInv, IntactInv, SecondGoesBehind, TypeOK, Whole
    <3>2. Parsed
      BY <2>1, <3>1 DEF VerdictInv, ParsedInv
    <3>3. start_line > 0 => buffer'[start_line - 1] = "NUL"
      <4>1. ASSUME start_line > 0
            PROVE  buffer'[start_line - 1] = "NUL"
        <5>1. start_line - 1 \in 0 .. BUFFER_SIZE - 1
              /\ start_line - 1 \notin read_index .. read_index + n - 1
          BY <2>1, <3>1, <4>1, VerdictTypes
        <5>2. buffer'[start_line - 1] = buffer[start_line - 1]
          BY <1>3, <5>1 DEF Receive, WriteAt
        <5> QED BY <3>2, <4>1, <5>2 DEF Parsed
      <4> QED BY <4>1
    <3> QED BY <2>1, <3>2, <3>3 DEF Parsed
  <2> QED BY <2>1, <2>2, <2>3 DEF ParsedInv
<1>4. CASE ReceiveNothing
  <2>1. read_index' <= taken'
    BY <1>4, VerdictTypes DEF ReceiveNothing, textVars
  <2> QED BY <1>4, <2>1 DEF ReceiveNothing, textVars, parserVars, VerdictInv, ParsedInv, Parsed, Whole
<1>5. CASE ReceiveFails
  BY <1>5 DEF ReceiveFails, textVars, parserVars, VerdictInv, ParsedInv, Parsed, Whole
<1>6. ASSUME NEW i \in 0 .. BUFFER_SIZE - 1, ParseRequestLine(i) PROVE ParsedInv'
  BY <1>6, RequestLineStep
<1>7. ASSUME NEW i \in 0 .. BUFFER_SIZE - 1, ParseHeaders(i) PROVE ParsedInv'
  BY <1>7, HeaderStep
<1>8. ASSUME NEW i \in 0 .. BUFFER_SIZE - 1, LineBad(i) PROVE ParsedInv'
  BY <1>8, BadLineStep
<1>9. CASE LineOpen
  BY <1>9, OpenLineStep
<1>10. CASE UNCHANGED vars
  BY <1>10 DEF vars, textVars, parserVars, VerdictInv, ParsedInv, Parsed, Whole
<1> QED BY <1>1, <1>2, <1>3, <1>4, <1>5, <1>6, <1>7, <1>8, <1>9, <1>10 DEF Next, Parse

(* For every text, cut in two wherever, and every buffer that it fits: if  *)
(* it is answered, the answer is the one it deserves as a whole.           *)
THEOREM VerdictsAreRight == Spec => []VerdictRight
<1>1. Init => VerdictInv
  BY TypedInit, HttpAssumption
  DEF Init, VerdictInv, IntactInv, SecondGoesBehind, TextIntact, ParsedInv, Parsed, NoBreak, Whole
<1>2. VerdictInv => VerdictRight
  BY DEF VerdictInv, ParsedInv, VerdictRight, Whole
<1> QED BY <1>1, <1>2, VerdictStep, PTL DEF Spec
=============================================================================
