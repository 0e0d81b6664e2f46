---------------------------- MODULE MCServerList ----------------------------
(* Localhost and one server; with a page of one server the list, and the     *)
(* favourites when one has been added, fill two pages.                       *)
EXTENDS ServerList

MCServer == {"home", "red"}
MCLists == {<<"red">>, <<"red", "bad">>, <<"bad">>}
MCKept == <<"red">>

\* A list that fills a page of two and has one more.
LongServer == {"home", "red", "blue"}
LongLists == {<<"red", "blue">>}
LongKept == <<"red", "blue">>
=============================================================================
