----------------------------- MODULE HttpParse -----------------------------
(***************************************************************************)
(* src/http_parse.cc: a server for one connection that reads a GET request *)
(* into a buffer, parses it line by line as it arrives, and answers.       *)
(*                                                                         *)
(* The text is a sequence of symbols: the characters that the automaton of *)
(* parse_line tells apart, blanks, and the words parse_request_line looks  *)
(* for.  A word counts as one entry of the buffer, so segments end between *)
(* words.  The NULs that parse_request_line puts between the words of a    *)
(* line it has consumed are never read again and are left out.             *)
(*                                                                         *)
(* main() keeps the length of the last segment in read_index, where the    *)
(* end of the text is meant (line 210): a third segment is written over    *)
(* the second, and text beyond read_index waits for segments to come.      *)
(*                                                                         *)
(* External: the client, who sends one of Texts in segments of any size,   *)
(* stops or goes away.                                                     *)
(***************************************************************************)
EXTENDS Integers, Sequences

CONSTANTS BUFFER_SIZE,   (* in symbols                                     *)
          Texts,         (* what a client may send                         *)
          MaxSegments    (* Bound: recv() returns text so many times       *)

Words == {"GET", "PATH", "SCHEME", "VERSION", "OTHER"}   (* /..., http://host, HTTP/1.1 *)
Symbols == Words \cup {"SP", "CR", "LF"}

ASSUME HttpAssumption ==
    /\ BUFFER_SIZE \in Nat \ {0}
    /\ Texts \subseteq Seq(Symbols)
    /\ MaxSegments \in Nat

VARIABLES text,            (* what the client sends                        *)
          taken,           (* how much of it recv() has returned           *)
          ended,           (* has the client closed the connection?        *)
          segments,        (* history: the calls that returned some of it  *)
          buffer, read_index, checked_index, start_line, check_state,
          pc,              (* "accept", "recv", "parse" or "closed"        *)
          result,          (* what parse_content returned last             *)
          reply            (* what was sent, by the entries of szret: the  *)
                           (* text of one, the length of another           *)

textVars == <<text, taken, ended, segments>>
parserVars == <<checked_index, start_line, check_state>>
vars == <<textVars, buffer, read_index, parserVars, pc, result, reply>>

Init ==
    /\ text \in Texts
    /\ taken = 0
    /\ ended = FALSE
    /\ segments = 0
    /\ buffer = [i \in 0 .. BUFFER_SIZE - 1 |-> "NUL"]
    /\ read_index = 0
    /\ checked_index = 0
    /\ start_line = 0
    /\ check_state = "REQUEST_LINE"
    /\ pc = "accept"
    /\ result = "NO_REQUEST"
    /\ reply = <<>>

-----------------------------------------------------------------------------
(* parse_request_line.  i is the first blank from k on (strpbrk); the first *)
(* that is not a blank, or the end (strspn).                                *)
BlankFrom(line, k, i) ==
    /\ i \in k .. Len(line) /\ line[i] = "SP"
    /\ \A j \in k .. i - 1 : line[j] # "SP"

NoBlankFrom(line, k, i) ==
    /\ i \in k .. Len(line) + 1
    /\ i <= Len(line) => line[i] # "SP"
    /\ \A j \in k .. i - 1 : line[j] = "SP"

(* Lines 95 to 102.  Every word but OTHER and GET contains a slash.         *)
IsUrl(url) ==
    \/ url[1] = "PATH"
    \/ url[1] = "SCHEME" /\ \E i \in 2 .. Len(url) : url[i] \in {"PATH", "SCHEME", "VERSION"}

RequestLineOk(line) ==
    \E end \in 1 .. Len(line) : \E url, urlEnd, version \in end .. Len(line) :
       /\ BlankFrom(line, 1, end)
       /\ SubSeq(line, 1, end - 1) = <<"GET">>
       /\ NoBlankFrom(line, end + 1, url)
       /\ BlankFrom(line, url, urlEnd)
       /\ NoBlankFrom(line, urlEnd + 1, version)
       /\ SubSeq(line, version, Len(line)) = <<"VERSION">>
       /\ IsUrl(SubSeq(line, url, urlEnd - 1))

-----------------------------------------------------------------------------
(* parse_line: it stops at i, the first CR or LF from checked_index on.     *)
StopsAt(i) ==
    /\ i \in checked_index .. read_index - 1
    /\ buffer[i] \in {"CR", "LF"}
    /\ \A j \in checked_index .. i - 1 : buffer[j] \notin {"CR", "LF"}

(* Variants: a CR at the end of what was read makes a bad line; a line that *)
(* ends where the text ends is left open.                                   *)
OpenNever(i) == FALSE
OpenEarly(i) == buffer[i] = "CR" /\ i + 2 >= read_index

OpenAt(i) == buffer[i] = "CR" /\ i + 1 = read_index

LineOkAt(i) ==
    IF buffer[i] = "CR" THEN i + 1 # read_index /\ buffer[i + 1] = "LF"
    ELSE i > 1 /\ buffer[i - 1] = "CR"

(* The place of the CR of the line that ends at i.                          *)
CrOf(i) == IF buffer[i] = "CR" THEN i ELSE i - 1

(* Variant: one too many.                                                   *)
NextLineSkips(i) == CrOf(i) + 3

NextLine(i) == CrOf(i) + 2

(* LINE_OK: the line is cut off, and the next one begins behind it.         *)
CutLine(i) ==
    /\ LineOkAt(i)
    /\ buffer' = [buffer EXCEPT ![CrOf(i)] = "NUL", ![CrOf(i) + 1] = "NUL"]
    /\ checked_index' = NextLine(i)
    /\ start_line' = checked_index'

(* The string at buffer + start_line once the line is cut off.              *)
LineAt(b, start) ==
    LET nul == CHOOSE i \in DOMAIN b : /\ i >= start /\ b[i] = "NUL"
                                       /\ \A j \in start .. i - 1 : b[j] # "NUL"
    IN  [i \in 1 .. nul - start |-> b[start + i - 1]]

-----------------------------------------------------------------------------
Accept ==
    /\ pc = "accept"
    /\ pc' \in {"recv", "closed"}
    /\ UNCHANGED <<textVars, buffer, read_index, parserVars, result, reply>>

ClientCloses ==
    /\ pc \in {"recv", "parse"}
    /\ ~ended
    /\ ended' = TRUE
    /\ UNCHANGED <<text, taken, segments, buffer, read_index, parserVars, pc, result, reply>>

(* Where recv() puts the text: buffer + read_index.  Variant: behind what   *)
(* was checked.                                                             *)
WriteAtChecked == checked_index

WriteAt == read_index

(* recv() returned n > 0 symbols.                                           *)
Receive(n) ==
    /\ pc = "recv"
    /\ ~ended
    /\ segments < MaxSegments
    /\ n <= BUFFER_SIZE - read_index
    /\ buffer' = [i \in 0 .. BUFFER_SIZE - 1 |->
                    IF i \in WriteAt .. WriteAt + n - 1
                    THEN text[taken + i - WriteAt + 1] ELSE buffer[i]]
    /\ taken' = taken + n
    /\ segments' = segments + 1
    /\ read_index' = n
    /\ pc' = "parse"
    /\ UNCHANGED <<text, ended, parserVars, result, reply>>

(* It returned 0, at the end of the stream or for want of room.             *)
ReceiveNothing ==
    /\ pc = "recv"
    /\ ended \/ read_index = BUFFER_SIZE
    /\ read_index' = 0
    /\ pc' = "parse"
    /\ UNCHANGED <<textVars, buffer, parserVars, result, reply>>

ReceiveFails ==
    /\ pc = "recv"
    /\ pc' = "closed"
    /\ UNCHANGED <<textVars, buffer, read_index, parserVars, result, reply>>

(* The end of parse_content and of the loop of main().                      *)
Answer(code) ==
    /\ result' = code
    /\ reply' = IF code = "GET_REQUEST" THEN <<0, 0>> ELSE <<0, 1>>
    /\ pc' = "closed"
    /\ UNCHANGED <<textVars, read_index>>

GoOn == pc' = "parse" /\ UNCHANGED <<textVars, read_index, result, reply>>

ParseRequestLine(i) ==
    /\ pc = "parse"
    /\ check_state = "REQUEST_LINE"
    /\ StopsAt(i)
    /\ CutLine(i)
    /\ \E line \in {LineAt(buffer', start_line)} :
          \/ RequestLineOk(line) /\ check_state' = "HEADER" /\ GoOn
          \/ ~RequestLineOk(line) /\ Answer("BAD_REQUEST") /\ UNCHANGED check_state

ParseHeaders(i) ==
    /\ pc = "parse"
    /\ check_state = "HEADER"
    /\ StopsAt(i)
    /\ CutLine(i)
    /\ LET empty == buffer'[start_line] = "NUL"
       IN  IF empty THEN Answer("GET_REQUEST") ELSE GoOn
    /\ UNCHANGED check_state

LineBad(i) ==
    /\ pc = "parse"
    /\ StopsAt(i)
    /\ ~OpenAt(i) /\ ~LineOkAt(i)
    /\ checked_index' = i
    /\ Answer("BAD_REQUEST")
    /\ UNCHANGED <<buffer, start_line, check_state>>

LineOpen ==
    /\ pc = "parse"
    /\ \/ /\ \A i \in 0 .. BUFFER_SIZE - 1 : ~StopsAt(i)
          /\ checked_index' = IF checked_index < read_index THEN read_index ELSE checked_index
       \/ \E i \in 0 .. BUFFER_SIZE - 1 : StopsAt(i) /\ OpenAt(i) /\ checked_index' = i
    /\ result' = "NO_REQUEST"
    /\ pc' = "recv"
    /\ UNCHANGED <<textVars, buffer, read_index, start_line, check_state, reply>>

Parse ==
    \/ \E i \in 0 .. BUFFER_SIZE - 1 : ParseRequestLine(i) \/ ParseHeaders(i) \/ LineBad(i)
    \/ LineOpen

Next ==
    \/ Accept
    \/ ClientCloses
    \/ \E n \in 1 .. Len(text) - taken : Receive(n)
    \/ ReceiveNothing
    \/ ReceiveFails
    \/ Parse

Spec == Init /\ [][Next]_vars

(* The parser runs once text has arrived.                                   *)
FairSpec == Spec /\ WF_vars(Parse)

-----------------------------------------------------------------------------
(* The reference: what a text means, whatever its segments.                 *)

(* GET, a URL without blanks and the version, between blanks.               *)
IsRequestLine(line) ==
    \E i, j \in 3 .. Len(line) - 2 :
       /\ i <= j
       /\ line[1] = "GET" /\ line[Len(line)] = "VERSION"
       /\ \A k \in 2 .. Len(line) - 1 : (k \in i .. j) <=> (line[k] # "SP")
       /\ IsUrl(SubSeq(line, i, j))

Ends(s) == {i \in 1 .. Len(s) - 1 : s[i] = "CR" /\ s[i + 1] = "LF"}
Stray(s) ==
    {i \in 1 .. Len(s) : \/ s[i] = "CR" /\ i < Len(s) /\ i \notin Ends(s)
                         \/ s[i] = "LF" /\ (i = 1 \/ s[i - 1] # "CR")}
Before(set, i) == \A j \in set : i < j

Meaning(s) ==
    LET first == {e \in Ends(s) : Before(Ends(s) \ {e}, e) /\ Before(Stray(s), e)}
        badLine == \E e \in first : ~IsRequestLine(SubSeq(s, 1, e - 1))
        emptyLine == \E e \in Ends(s) : e - 2 \in Ends(s) /\ Before(Stray(s), e)
    IN  IF badLine THEN "BAD_REQUEST"
        ELSE IF emptyLine THEN "GET_REQUEST"
        ELSE IF Stray(s) # {} THEN "BAD_REQUEST" ELSE "NO_REQUEST"

(* The indices stay in the buffer and in order, whatever the segments: the  *)
(* text arrives inside it, parse_line reads and cuts inside it, and a line  *)
(* begins no later than where the parser stands.                            *)
TypeOK ==
    /\ text \in Seq(Symbols)
    /\ taken \in 0 .. Len(text)
    /\ buffer \in [0 .. BUFFER_SIZE - 1 -> Symbols \cup {"NUL"}]
    /\ read_index \in 0 .. BUFFER_SIZE
    /\ checked_index \in 0 .. BUFFER_SIZE
    /\ start_line \in 0 .. checked_index
    /\ check_state \in {"REQUEST_LINE", "HEADER"}
    /\ pc \in {"accept", "recv", "parse", "closed"}

(* After one or two segments that fit, the buffer holds the text from the   *)
(* start of the current line on, though read_index is wrong after the       *)
(* second: this is why they are parsed rightly as far as they are parsed.   *)
TextIntact ==
    segments <= 2 /\ taken <= BUFFER_SIZE =>
       \A i \in start_line .. taken - 1 : buffer[i] = text[i + 1]

(* A request that comes in one or two segments, wherever it is cut (between *)
(* CR and LF too), and fits the buffer gets the answer it deserves, if it   *)
(* is answered.  With three segments that is no longer so.                  *)
VerdictRight ==
    segments <= 2 /\ taken <= BUFFER_SIZE /\ reply # <<>> => result = Meaning(text)

(* How far the parser looks: at all of one segment, at as much of two.      *)
Seen == IF segments = 1 THEN taken ELSE read_index

(* A request that comes in one segment is answered.  One that comes in two  *)
(* is answered as soon as what decides it lies within the length of the     *)
(* second, where line 210 puts the end of the text; the rest is left unread *)
(* for want of a third.                                                     *)
Answered ==
    ( /\ segments \in {1, 2} /\ taken <= BUFFER_SIZE /\ pc = "parse"
      /\ Meaning(SubSeq(text, 1, Seen)) # "NO_REQUEST" )
       ~> reply # <<>>
=============================================================================
