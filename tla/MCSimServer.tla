---------------------------- MODULE MCSimServer ----------------------------
(* Instances of SimServer for TLC. *)
EXTENDS SimServer, TLC

\* The application each channel shows; the channels after these are unsupported.
Shows(apps) == [ch \in Channels |-> IF ch < Len(apps) THEN apps[ch + 1] ELSE "unsupported"]

\* Phones that answer for the ISIM on a channel of its own, only through
\* AT+CCHO, or with both applications away from channel 0.
SomeLayouts == {Shows(<<"USIM", "ISIM">>), Shows(<<"USIM">>), Shows(<<"MF", "USIM", "ISIM">>)}
\* A reset may move the applications.
Moving == {Shows(<<"USIM", "ISIM">>), Shows(<<"ISIM", "USIM">>)}

OneFile == {File("ISIM", "6F07")}
TwoFiles == {File("USIM", "6F07"), File("ISIM", "6F07")}
JustRead == {"read"}
ReadWrite == {"read", "write"}

AllServerOps == ServerEndpoints
ConnectReset == {"connect", "at_check", "cfun_reset"}

Adm1 == {"ADM1"}
Symmetric == Permutations(Threads)

=============================================================================
