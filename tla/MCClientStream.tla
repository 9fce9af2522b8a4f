---------------------------- MODULE MCClientStream ----------------------------
(* A small instance of ClientStream.                                         *)
EXTENDS ClientStream

Plain == [api |-> "chat", stream |-> TRUE, tools |-> FALSE, bad |-> FALSE, files |-> "none",
          product |-> "none", multi |-> FALSE, long |-> FALSE]

(* Both interfaces with and without streaming, tools and a conversation,   *)
(* and one of the other things at a time.                                  *)
MCQueries ==
  LET Basic == {r \in Asks : r.files = "none" /\ r.product = "none" /\ ~r.bad /\ ~r.long
                             /\ (r.multi => r.tools) /\ (r.tools \/ r.stream)}
      Other == {[Plain EXCEPT !.bad = TRUE], [Plain EXCEPT !.files = "audio"],
                [Plain EXCEPT !.files = "visual"], [Plain EXCEPT !.product = "canvas"],
                [Plain EXCEPT !.product = "media"], [Plain EXCEPT !.long = TRUE],
                [Plain EXCEPT !.long = TRUE, !.multi = TRUE]}
  IN Basic \cup Other \cup {[r EXCEPT !.api = "responses"] : r \in Other}

(* Two fences that close and one that does not, of either kind, among text *)
(* and white space.                                                        *)
Pieces == {<<"a">>, <<"_">>, <<"f", "t", "g", "f">>, <<"f", "t", "a", "f">>,
           <<"f", "t", "g">>, <<"f", "x", "a", "f">>}
MCAnswers ==
  {p \o q \o r : p \in Pieces, q \in {<<"_">>, <<"a">>, <<"_", "a">>},
                r \in {<<>>, <<"f">>, <<"f", "t", "g", "f">>}}
MCThoughts == {<<"a">>, <<"a", "a">>}
MCRewrites == {<<"a", "a", "f">>, <<"_">>}

(* A picture asked for with tools.                                         *)
MCPictured == {[Plain EXCEPT !.tools = TRUE, !.product = "media"]}
=============================================================================
