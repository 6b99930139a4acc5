------------------------------ MODULE MCEntities ------------------------------
(***************************************************************************)
(* A small instance of Entities: two turns and a note over three keys, one *)
(* of which is seen with two kinds.                                        *)
(***************************************************************************)
EXTENDS Entities

CONSTANTS key1, key2, key3, ta, tb, nt, u1, u2

Seen(key, kind) == [key |-> key, kind |-> kind]

ThreeTexts ==
  [t \in Texts |-> CASE t = ta -> <<Seen(key1, 2), Seen(key2, 1)>>
                     [] t = tb -> <<Seen(key1, 1), Seen(key3, 1)>>
                     [] OTHER -> <<Seen(key2, 1), Seen(key3, 1), Seen(key2, 1)>>]
NoteWithA == [t \in Texts |-> IF t = tb THEN u2 ELSE u1]
TextsInOrder == [t \in Texts |-> IF t = tb THEN 1 ELSE 2]

==============================================================================
