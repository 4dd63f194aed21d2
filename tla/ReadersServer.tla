--------------------------- MODULE ReadersServer ---------------------------
(***************************************************************************)
(* The reader drivers and the eSIM server, each with variables of its own, *)
(* which ReadersServerProofs is about; PySimCard sets the other parts      *)
(* beside them.                                                            *)
(***************************************************************************)
EXTENDS Integers, Sequences

CONSTANTS
  Drivers, Headers, Answers, HeaderLength, MaxCalls,
  MaxPayload, Clients, MatchingIds, Transactions, Digits, Sizes, Setups, Changing, MaxChanges

VARIABLES
  driver, inbox, unsent, owing, swallowed, socket, inserted, last, waiting, calls,
  rss, ever, upp_dir, clients, requests, fresh

Reader == INSTANCE CardReaders
Server == INSTANCE Smdpp

readerVars == <<driver, inbox, unsent, owing, swallowed, socket, inserted, last, waiting, calls>>
serverVars == <<rss, ever, upp_dir, clients, requests, fresh>>

\* A command has a header, and asks for a number of bytes.
ASSUME ReaderAssumption ==
  /\ HeaderLength \in Nat \ {0}
  /\ \A h \in DOMAIN Headers : Headers[h].p3 \in Nat
  /\ \A answer \in Answers : answer.data \in Nat

\* No eUICC and no transaction is called "none", only a known profile can be replaced, and a profile has
\* a size.
ASSUME ServerAssumption ==
  /\ "none" \notin Clients /\ "none" \notin Transactions
  /\ Setups \subseteq {"good", "other address", "other CI", "bad chain", "EID out of range"}
  /\ Changing \subseteq MatchingIds /\ MaxChanges \in Nat
ASSUME PackageAssumption == MaxPayload \in Nat \ {0} /\ Sizes \in [MatchingIds -> Nat]

=============================================================================
