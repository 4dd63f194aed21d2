-------------------------- MODULE MCBinaryTransfer --------------------------
(* Instances of Transfers for TLC. *)
EXTENDS Transfers

AllTransfers == TransferOps

\* Empty, one command, its limit, several commands, and past Reach.
ManySizes == 0..14
CsimPads == {"read_csim"}

\* Around the edges of the BER forms and of the Lc byte, and past three digits.
EdgeLengths == {0, 1, 127, 128, 252, 253, 254, 255, 256, 4100}
FewSegments == 1..3

\* Files of every kind, some the tables cannot show; rules of every kind.
AnyRule == <<[modes |-> {"read_search_compare"}, cond |-> "always"], [modes |-> {"update_erase"}, cond |-> "adm"]>>
Free == <<[modes |-> {"update_erase"}, cond |-> "pin"], [modes |-> {"update_erase"}, cond |-> "adm"]>>
EditTargets ==
  LET ef(k, c) == [kind |-> k, contents |-> c, tail |-> FALSE, sized |-> TRUE,
                     mapped |-> {1, 2}, rules |-> Free]
      services == ef("service", <<TRUE, FALSE, FALSE>>)
      plmns == ef("plmn", <<[net |-> "n1", act |-> "80"], [net |-> "free", act |-> "0000"]>>)
      plain == ef("hex", <<0, 1>>)
      service == [ef("service", <<TRUE, FALSE>>) EXCEPT !.mapped = {1}]
  IN {services, [service EXCEPT !.contents[2] = TRUE], [service EXCEPT !.sized = FALSE],
      plmns, [plmns EXCEPT !.contents[2].act = "80"], [plmns EXCEPT !.tail = TRUE],
      ef("acc", <<TRUE, FALSE>>), [ef("acc", <<FALSE>>) EXCEPT !.tail = TRUE],
      plain, [plain EXCEPT !.rules = AnyRule], [plain EXCEPT !.rules = <<>>],
      [plain EXCEPT !.rules = <<[modes |-> {"update_erase"}, cond |-> "never"]>>],
      ef("records", <<0, 1>>), ef("tlv", <<>>),
      ef("tlv", <<[tag |-> "80", value |-> 0, fits |-> TRUE], [tag |-> "81", value |-> 0, fits |-> TRUE]>>)}

\* Enough for two writes, the second from a popup opened while the first is awaited; PLMNs, with
\* the most ways to edit a row, one step less.
ManySteps == [k \in {"service", "plmn", "acc", "hex", "records", "tlv"} |-> IF k = "plmn" THEN 5 ELSE 6]

=============================================================================
