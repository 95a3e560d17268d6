------------------------------ MODULE MCTrees -------------------------------
EXTENDS Trees

MCTops == <<"a", "b">>

\* u and v have the same size and time.
MCStamp == [u |-> 1, v |-> 1, w |-> 2]

\* What a name can be, with one content for a file and for a directory's.
Kinds == {Absent, File("v")} \cup {Link(d) : d \in Top}
         \cup {Dir(m, x) : m \in {"plain", "special"}, x \in {"v", None}}
MCBases ==
  {t \in [Top -> Kinds] : t["b"] \in {Absent, Link("a"), Dir("plain", "v")}}
MCContext == [d \in Top |-> IF d = "a" THEN Dir("special", "w") ELSE Dir("plain", "v")]

\* b
\* !b/x
MCIgnore == <<[path |-> [top |-> "b", x |-> FALSE], negated |-> FALSE],
              [path |-> [top |-> "b", x |-> TRUE], negated |-> TRUE]>>

\* For sync and copy: each kind under the first name, two under the other.
Some == {Absent, File("w"), File("v"), Link("b"), Dir("special", None), Dir("plain", "v")}
MCSources ==
  {t \in [Top -> (Some \ {File("w")}) \cup {Special}] : t["b"] \in {Absent, File("v")}}
MCDests ==
  {t \in [Top -> Entries] :
     t["a"] \in Some \ {File("v")} /\ t["b"] \in {File("u"), Dir("plain", "u")}}
MCTurns == {File("u"), Dir("plain", "w")}

\* Container paths: a directory, perhaps another in it, and links up, down,
\* around and to the root.
CONSTANTS root, room, hall, world
Links == {Linked(TRUE, <<>>), Linked(TRUE, <<"m">>), Linked(FALSE, <<"n">>),
          Linked(FALSE, <<"m">>), Linked(FALSE, <<"..">>)}
MCLayouts ==
  {[r \in {root, room, hall, world} |->
      CASE r = root -> [n \in {"m", "n"} |-> IF n = "m" THEN Room(room) ELSE e]
        [] r = room -> [n \in {"m", "n"} |-> IF n = "m" THEN f ELSE g]
        [] OTHER -> [n \in {"m", "n"} |-> NoEntry]] :
     e \in Links \cup {NoEntry, Plain}, f \in {Room(hall), Linked(FALSE, <<"..">>)},
     g \in {NoEntry, Linked(TRUE, <<"m">>)}}
MCSpecs == {<<"n">>, <<"m", "m">>, <<"n", "m">>, <<"m", "n", "m">>, <<"n", "..", "n">>, <<"..", "m">>}
MCSwaps == {NoEntry, Linked(TRUE, <<>>), Linked(FALSE, <<"..">>)}

\* A deep directory, alone or beside another.
CONSTANTS d1, d2, d3, d4, d5, out
Chain == [d \in {d1, d2, d3, d4, d5, out} |->
            CASE d = d2 -> d1 [] d = d3 -> d2 [] d = d4 -> d3 [] d = d5 -> d4 [] OTHER -> out]
MCShapes == {Chain, [Chain EXCEPT ![d3] = d1]}

\* One directory, and a command that puts a file in its place.
OneBase == {[d \in Top |-> IF d = "a" THEN Dir("plain", "v") ELSE Absent]}
OneLeft == {File("v")}

\* An empty context.
Nowhere == [d \in Top |-> Absent]
NoIgnore == <<>>
=============================================================================
