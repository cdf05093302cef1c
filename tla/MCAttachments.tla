---------------------------- MODULE MCAttachments ----------------------------
EXTENDS Attachments
CONSTANTS p1, p2, a1, a2, a3, hostile, hash, hash2, hash3, dotHash, file, file2, file3

(* The first attachment's name is refused by os.Root, the second is called *)
(* what the first one's fallback is, and the third is called "./" that.    *)
ThreeFiles   == <<a1, a2, a3>>
FiveNames    == {hostile, hash, hash2, hash3, dotHash}
TheirNames   == [a \in {a1, a2, a3} |-> CASE a = a1 -> hostile
                                          [] a = a2 -> hash
                                          [] a = a3 -> dotHash]
HashFallback == [a \in {a1, a2, a3} |-> hash]
RefusedNames == {hostile}
Numbered     == [n \in FiveNames |-> IF n \in {hash2, hash3}
                                       THEN <<n, hash, dotHash>>
                                       ELSE <<n, hash2, hash3>>]
SomeFiles    == {file, file2, file3}
DotDropped   == [n \in FiveNames |-> CASE n = hash2 -> file2
                                       [] n = hash3 -> file3
                                       [] OTHER     -> file]
=============================================================================
