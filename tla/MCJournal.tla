----------------------------- MODULE MCJournal -----------------------------
(* Queries of one to three lines; verdicts of one line, and the message of an *)
(* engine that quotes the statement it rejects on lines of its own.           *)
EXTENDS Journal

MCQueries == {<<"text">>, <<"text", "text">>, <<"text", "blank", "text">>}
MCOneLineVerdicts == {<<>>, <<"blank">>}
AnyVerdicts == {<<>>, <<"text">>, <<"text", "semi">>}
=============================================================================
