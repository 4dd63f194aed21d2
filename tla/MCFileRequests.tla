--------------------------- MODULE MCFileRequests ---------------------------
(* Instances of FileRequests for TLC. *)
EXTENDS FileRequests, TLC

\* The application each channel shows; the channels after these are unsupported.
Shows(apps) == [ch \in Channels |-> IF ch < Len(apps) THEN apps[ch + 1] ELSE "unsupported"]

\* The usual phone: USIM on channel 0, ISIM on channel 1.
Scanned == {Shows(<<"USIM", "ISIM">>)}
\* Two files of different applications that share a file identifier (EF.IMSI and
\* EF.IST), and a file of the MF.
TwoFiles == {File("USIM", "6F07"), File("ISIM", "6F07")}
SomeFiles == TwoFiles \cup {File("MF", "2FE2")}

\* A read takes the steps of a write; SimServer's instances have it.
WritesAndBatches == FileOps \ {"read"}
JustWrite == {"write"}

Symmetric == Permutations(Threads)

=============================================================================
