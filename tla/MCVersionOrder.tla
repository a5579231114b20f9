--------------------------- MODULE MCVersionOrder ---------------------------
(* Segments that meet every case of the loop: numbers, one of them beyond    *)
(* MaxInt64, and texts, two of them equal up to case.                        *)
EXTENDS VersionOrder

MCSegments == {"2", "10", "99999999999999999999", "k0s", "K0S", "rc"}

MCDecimal == [s \in MCSegments |->
                CASE s = "2" -> 2 [] s = "10" -> 10 [] s = "99999999999999999999" -> 100
                  [] OTHER -> -1]

MCFolded == [s \in MCSegments |->
               CASE s = "10" -> 1 [] s = "2" -> 2 [] s = "99999999999999999999" -> 3
                 [] s \in {"k0s", "K0S"} -> 4 [] OTHER -> 5]

MCVersions == UNION {[1..n -> MCSegments] : n \in 0..2}
=============================================================================
