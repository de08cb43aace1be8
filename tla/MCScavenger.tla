------------------------------ MODULE MCScavenger ------------------------------
(* Images for Scavenger. *)
EXTENDS Scavenger

\* A leaf is any object without pointers.
MCSlots == [plain |-> 1, leaf |-> 0, weak |-> 2, ephemeron |-> 2]

Image(old, perm, young, n, times) ==
    [old |-> old, perm |-> perm, eden |-> <<>>, births |-> young,
     stores |-> n, scavenges |-> times]

\* An image whose eden is full of objects that refer to each other.
FullEden(objects) ==
    [old |-> <<>>, perm |-> <<>>, eden |-> objects, births |-> <<>>,
     stores |-> 0, scavenges |-> 1]

InEden(i) == EdenStart + i - 1
Plain(a) == [kind |-> "plain", bits |-> 0, slots |-> <<a>>]
Ephemeron(key, value) == [kind |-> "ephemeron", bits |-> 0, slots |-> <<key, value>>]

\* The first ephemeron's key is found when the ephemeron has been passed; its
\* value leads to an ephemeron, or to the key of another one.
FindsAnEphemeron ==
    FullEden(<<Ephemeron(InEden(4), InEden(2)), Ephemeron(InEden(5), Nil),
               Plain(InEden(4)), Plain(Nil), Plain(Nil)>>)
FindsAKey ==
    FullEden(<<Ephemeron(InEden(4), InEden(5)), Ephemeron(InEden(6), Nil),
               Plain(InEden(4)), Plain(Nil), Plain(InEden(6)), Plain(Nil)>>)

MCImages ==
    { FindsAnEphemeron,
      FindsAKey,
      Image(<<"ephemeron">>, <<>>, <<"ephemeron", "plain">>, 3, 1),
      Image(<<"ephemeron", "ephemeron">>, <<>>, <<"plain">>, 3, 1),
      Image(<<"ephemeron", "weak">>, <<>>, <<"leaf", "leaf">>, 2, 1),
      Image(<<>>, <<>>, <<"ephemeron", "ephemeron", "leaf">>, 3, 1),
      Image(<<>>, <<>>, <<"ephemeron", "plain">>, 2, 2),
      Image(<<"weak">>, <<>>, <<"weak", "leaf">>, 2, 2),
      Image(<<"plain">>, <<"plain">>, <<"plain", "leaf">>, 2, 2),
      Image(<<"plain", "plain">>, <<>>, <<"ephemeron", "leaf">>, 2, 1),
      Image(<<"ephemeron", "plain">>, <<>>, <<"ephemeron", "leaf">>, 2, 1),
      Image(<<>>, <<>>, <<"plain", "plain", "plain">>, 1, 2) }
================================================================================
