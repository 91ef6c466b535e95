---------------------------- MODULE MCHttpParse ----------------------------
(* Texts of a request line, an optional header and an empty line, with     *)
(* what goes wrong in them: other words, blanks and line ends.             *)
EXTENDS HttpParse

RequestLines == {
    <<"GET", "SP", "PATH", "SP", "VERSION">>,
    <<"GET", "SP", "SP", "SCHEME", "PATH", "SP", "SP", "VERSION">>,
    <<"GET", "SP", "SCHEME", "OTHER", "SP", "VERSION">>,
    <<"GET", "SP", "PATH", "SP", "VERSION", "SP">>,
    <<"GET", "SP", "SP", "VERSION">>,
    <<"SP", "PATH", "SP", "VERSION">>,
    <<"OTHER", "SP", "PATH", "SP", "VERSION">>,
    <<"GET", "SP", "OTHER", "SP", "VERSION">>,
    <<"GET">>, <<>> }

LineEnds == {<<"CR", "LF">>, <<"CR">>, <<"LF">>}
Headers == {<<>>, <<"OTHER">>}

MCTexts == {line \o e1 \o header \o e2 \o e3 :
              line \in RequestLines, e1 \in LineEnds, header \in Headers,
              e2 \in LineEnds, e3 \in LineEnds \cup {<<>>}}
=============================================================================
