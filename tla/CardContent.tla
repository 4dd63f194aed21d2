---------------------------- MODULE CardContent ----------------------------
(***************************************************************************)
(* Managing what a card holds, as pySim-shell does it in its security      *)
(* domains: load files and applications (global_platform/__init__.py, the  *)
(* CAP files of javacard.py), and the profiles of an eUICC (euicc.py).     *)
(*                                                                         *)
(* Bytes come in units: a component of a CAP file, the TLV header before   *)
(* them, a piece of the data for an application.                           *)
(***************************************************************************)
EXTENDS Naturals, Sequences, SequencesExt, FiniteSets

CONSTANTS
  CapFiles,     \* what is in a .cap file: components, magic number, AIDs
  ChunkLen,     \* units in a LOAD
  MaxDataLen,   \* units in a STORE DATA
  BlockNumbers, \* block numbers there are: 256
  PageSize,     \* entries in an answer to GET STATUS
  Payloads,     \* how many units of data are stored
  AllKeys,      \* pairs of version and identifier: the keys of the card
  Iccids,       \* the profiles of the eUICC
  LongNames,    \* nicknames that make a command of more than 255 bytes
  MaxRefusals,  \* bound: commands that the card refuses, or that are lost, or their answers
  MaxJobs       \* bound: commands of the user

VARIABLES
  registry, \* the card: load files, applications, keys, the loading under way, data it was given
  profiles, \* the eUICC: the state and the nickname of each profile
  task,      \* the command under way
  report,   \* how the last one ended
  refusals,
  jobs

contentVars == <<registry, profiles, task, report, refusals, jobs>>

NoLoading == [aid |-> "none", got |-> <<>>, next |-> 0, total |-> 0]
NoContentJob ==
  [name |-> "none", pc |-> "none", cap |-> "none", aid |-> "none", app |-> "none", left |-> <<>>,
   nr |-> 0, list |-> <<>>]
NoReport == [name |-> "none", how |-> "none", cap |-> "none", aid |-> "none", list |-> <<>>, whole |-> TRUE]
Profile(state) == [state |-> state, nickname |-> ""]

ContentInit ==
  /\ registry = [files |-> [a \in {} |-> <<>>], apps |-> [a \in {} |-> ""], locked |-> {}, keys |-> AllKeys,
                 loading |-> NoLoading, meant |-> "ISD", data |-> [a \in {} |-> <<>>]]
  /\ profiles = [i \in Iccids |-> Profile("disabled")]
  /\ task = NoContentJob /\ report = NoReport
  /\ refusals = 0 /\ jobs = 0

-----------------------------------------------------------------------------
\* javacard.py.

Required ==
  {"Header", "Directory", "Import", "ConstantPool", "Class", "Method", "StaticField", "RefLocation", "Descriptor"}
OrderOfLoadFile ==
  <<"Header", "Directory", "Import", "Applet", "Class", "Method", "StaticField", "Export",
    "ConstantPool", "RefLocation", "Descriptor">>
IsCapFile(cap) == Required \subseteq cap.components
GetLoadFile(cap) == SelectSeq(OrderOfLoadFile, LAMBDA c : c \in cap.components)

\* The AIDs are read from Header, which must have its number, and from the first entry of Applet.
HasLoadFileAid(cap) == cap.magic
HasAppletAid(cap) == "Applet" \in cap.components /\ cap.applets # <<>>

-----------------------------------------------------------------------------
\* The card.  It takes a load file's blocks in their order, each once.

Stored == DOMAIN registry.files
Installed == DOMAIN registry.apps
Entries == SetToSeq(Stored) \o SetToSeq(Installed)

TakesInstallForLoad(aid) == aid \notin Stored
\* The header, in the first block, tells the length.
TakesLoad(nr, units, total, last) ==
  LET l == registry.loading IN
  /\ l.aid # "none" /\ nr = l.next % BlockNumbers
  /\ last <=> Len(l.got) + Len(units) = IF l.next = 0 THEN total ELSE l.total
AfterLoad(units, total, last) ==
  LET l == registry.loading
      got == l.got \o units
  IN IF last THEN [registry EXCEPT !.loading = NoLoading,
                     !.files = [a \in Stored \cup {l.aid} |-> IF a = l.aid THEN Tail(got) ELSE @[a]]]
     ELSE [registry EXCEPT !.loading = [l EXCEPT !.got = got, !.next = @ + 1,
                                                 !.total = IF l.next = 0 THEN total ELSE @]]
TakesInstallForInstall(file, app) == file \in Stored /\ app \notin Installed
AfterInstall(file, app) ==
  [registry EXCEPT !.apps = [a \in Installed \cup {app} |-> IF a = app THEN file ELSE @[a]]]
AppsOf(file) == {a \in Installed : registry.apps[a] = file}
TakesDelete(aid, related) == aid \in Installed \/ (aid \in Stored /\ (related \/ AppsOf(aid) = {}))
AfterDelete(aid) ==
  LET gone == {aid} \cup IF aid \in Stored THEN AppsOf(aid) ELSE {} IN
  [registry EXCEPT !.files = [a \in Stored \ {aid} |-> @[a]], !.apps = [a \in Installed \ gone |-> @[a]],
                   !.locked = @ \ gone]

-----------------------------------------------------------------------------
\* A command under way sends one APDU after the other, each checked for 9000; what else comes back, or
\* nothing, raises, and what was done stays done.

Idle == task.name = "none"
Free(next, said) ==
  /\ Idle /\ jobs < MaxJobs /\ jobs' = jobs + 1
  /\ task' = IF said.how = "under_way" THEN [next EXCEPT !.name = said.name] ELSE NoContentJob
  /\ report' = said
  /\ UNCHANGED <<registry, profiles, refusals>>
Saying(name, cap, aid, how) == [NoReport EXCEPT !.name = name, !.cap = cap, !.aid = aid, !.how = how]
Ends(how) == task' = NoContentJob /\ report' = [report EXCEPT !.how = how]

\* The APDU gets through and is done, or it does not; done and not answered raises as well.
Send(takes, after, goesOn) ==
  /\ UNCHANGED <<profiles, jobs>>
  /\ \/ takes /\ registry' = after /\ goesOn /\ UNCHANGED refusals
     \/ /\ ~takes \/ refusals < MaxRefusals
        /\ refusals' = IF takes THEN refusals + 1 ELSE refusals
        /\ registry' \in IF takes THEN {registry, after} ELSE {registry}
        /\ Ends("raised")

At(pc) == task.pc = pc

-----------------------------------------------------------------------------
\* install_cap, and its three steps as commands of their own.

\* The file is read before anything is sent; two ways of saying the parameters end the shell.
DoInstallCap(c, both) ==
  LET cap == CapFiles[c]
      readable == IsCapFile(cap) /\ HasLoadFileAid(cap) /\ HasAppletAid(cap)
  IN Free([NoContentJob EXCEPT !.pc = "for_load", !.cap = c, !.aid = cap.aid,
                               !.app = IF readable THEN Head(cap.applets) ELSE "none"],
          Saying("install_cap", c, "none", IF ~readable THEN "raised" ELSE IF both THEN "exits" ELSE "under_way"))

\* A load token without a hash is an error before anything is sent.
DoInstallForLoad(aid, token, hash) ==
  Free([NoContentJob EXCEPT !.pc = "for_load", !.aid = aid],
       Saying("install_for_load", "none", aid, IF token /\ ~hash THEN "raised" ELSE "under_way"))

Contents(c) == <<"C4">> \o GetLoadFile(CapFiles[c])
InstallForLoad ==
  /\ At("for_load")
  /\ Send(TakesInstallForLoad(task.aid), [registry EXCEPT !.loading = [NoLoading EXCEPT !.aid = task.aid]],
          IF task.cap = "none" THEN Ends("ok")
          ELSE task' = [task EXCEPT !.pc = "load", !.left = Contents(task.cap)] /\ UNCHANGED report)

DoLoad(c) ==
  Free([NoContentJob EXCEPT !.pc = "load", !.left = Contents(c)], Saying("load", "none", "none", "under_way"))

\* The first units that one command carries; the number of a LOAD's block has eight bits.
Chunk(units, len) == SubSeq(units, 1, IF Len(units) < len THEN Len(units) ELSE len)
Rest(units, len) == SubSeq(units, Len(Chunk(units, len)) + 1, Len(units))
IsLast(rest) == rest = <<>>
Load ==
  LET units == Chunk(task.left, ChunkLen)
      rest == Rest(task.left, ChunkLen)
      total == Len(task.left)
  IN
  /\ At("load")
  /\ Send(TakesLoad(task.nr % BlockNumbers, units, total, IsLast(rest)), AfterLoad(units, total, IsLast(rest)),
          IF rest # <<>> THEN task' = [task EXCEPT !.left = rest, !.nr = @ + 1] /\ UNCHANGED report
          ELSE IF task.cap = "none" THEN Ends("ok")
          ELSE task' = [task EXCEPT !.pc = "for_install", !.left = <<>>] /\ UNCHANGED report)

DoInstallForInstall(file, app) ==
  Free([NoContentJob EXCEPT !.pc = "for_install", !.aid = file, !.app = app],
       Saying("install_for_install", "none", app, "under_way"))
InstallForInstall ==
  At("for_install") /\ Send(TakesInstallForInstall(task.aid, task.app), AfterInstall(task.aid, task.app), Ends("ok"))

-----------------------------------------------------------------------------
\* Personalisation: STORE DATA goes to the application that INSTALL [for personalization] named.

DoInstallForPersonalization(app) ==
  Free([NoContentJob EXCEPT !.pc = "for_perso", !.app = app],
       Saying("install_for_personalization", "none", app, "under_way"))
InstallForPersonalization ==
  At("for_perso") /\ Send(task.app \in Installed, [registry EXCEPT !.meant = task.app], Ends("ok"))

DoStoreData(n) ==
  LET data == [i \in 1..n |-> i] IN
  Free([NoContentJob EXCEPT !.pc = "store", !.left = data],
       [Saying("store_data", "none", registry.meant, "under_way") EXCEPT !.list = data])

\* A number beyond eight bits makes three digits of it, and no APDU.  No data, no command.
Fits(nr) == nr < BlockNumbers
StoreData ==
  LET rest == Rest(task.left, MaxDataLen)
      to == registry.meant
      had == IF task.nr # 0 /\ to \in DOMAIN registry.data THEN registry.data[to] ELSE <<>>
  IN
  /\ At("store")
  /\ IF task.left = <<>> THEN Ends("ok") /\ UNCHANGED <<registry, profiles, refusals, jobs>>
     ELSE Send(Fits(task.nr) /\ Len(had) = MaxDataLen * task.nr,
               [registry EXCEPT !.data = [a \in DOMAIN @ \cup {to} |->
                  IF a = to THEN had \o Chunk(task.left, MaxDataLen) ELSE @[a]]],
               task' = [task EXCEPT !.left = rest, !.nr = @ + 1] /\ UNCHANGED report)

-----------------------------------------------------------------------------
\* DELETE, SET STATUS, GET STATUS.

\* The P2 of DELETE says whether related objects go as well.
RelatedP2 == 128
DoDeleteCardContent(aid, related) ==
  Free([NoContentJob EXCEPT !.pc = "delete", !.aid = aid, !.nr = IF related THEN RelatedP2 ELSE 0],
       Saying("delete_card_content", "none", aid, "under_way"))
Delete == At("delete") /\ Send(TakesDelete(task.aid, task.nr = RelatedP2), AfterDelete(task.aid), Ends("ok"))

\* Every key with the given version, the given identifier, or both; one has to be given.
Matching(kvn, kid) == {k \in AllKeys : kvn \in {"none", k[1]} /\ kid \in {"none", k[2]}}
DoDeleteKey(kvn, kid) ==
  Free([NoContentJob EXCEPT !.pc = "delete_key", !.list = <<kvn, kid>>],
       Saying("delete_key", kvn, kid, IF {kvn, kid} = {"none"} THEN "raised" ELSE "under_way"))
DeleteKey ==
  /\ At("delete_key")
  /\ LET keys == Matching(task.list[1], task.list[2]) IN
     Send(keys \cap registry.keys # {}, [registry EXCEPT !.keys = @ \ keys], Ends("ok"))

DoSetStatus(aid) ==
  Free([NoContentJob EXCEPT !.pc = "set_status", !.aid = aid], Saying("set_status", "none", aid, "under_way"))
SetStatus == At("set_status") /\ Send(task.aid \in Installed, [registry EXCEPT !.locked = @ \cup {task.aid}], Ends("ok"))

\* The first answer, then the next as long as 6310 says that there is more.  Any other status ends the
\* list, an error as well; only a command that is not answered raises.
DoGetStatus == Free([NoContentJob EXCEPT !.pc = "first"], Saying("get_status", "none", "none", "under_way"))
GoesOn(sw) == sw = "6310"
GetStatus(sw) ==
  LET from == IF At("first") THEN 0 ELSE task.nr
      here == SubSeq(Entries, from + 1, IF from + PageSize < Len(Entries) THEN from + PageSize ELSE Len(Entries))
      more == from + Len(here) < Len(Entries)
      list == IF sw \in {"9000", "6310"} THEN task.list \o here ELSE task.list
  IN
  /\ task.pc \in {"first", "next"}
  /\ sw \in {"error", "lost"} => refusals < MaxRefusals
  /\ sw = "9000" => ~more
  /\ sw = "6310" => more
  /\ refusals' = IF sw \in {"error", "lost"} THEN refusals + 1 ELSE refusals
  /\ IF GoesOn(sw)
     THEN task' = [task EXCEPT !.pc = "next", !.nr = from + Len(here), !.list = list] /\ UNCHANGED report
     ELSE /\ task' = NoContentJob
          /\ report' = [report EXCEPT !.how = IF sw = "lost" THEN "raised" ELSE "ok", !.list = list,
                                      !.whole = sw = "9000"]
  /\ UNCHANGED <<registry, profiles, jobs>>

\* A reset ends a loading, and what was meant for an application.
ResetCard ==
  /\ Idle /\ jobs < MaxJobs /\ jobs' = jobs + 1
  /\ registry' = [registry EXCEPT !.loading = NoLoading, !.meant = "ISD"]
  /\ report' = NoReport
  /\ UNCHANGED <<profiles, task, refusals>>

-----------------------------------------------------------------------------
\* euicc.py: one STORE DATA to the ISD-R and one answer for each command.

\* What the eUICC does with a profile.  Enabling one disables the one that was.
EuiccDoes(op, i, name) ==
  CASE op = "enable" -> [j \in DOMAIN profiles |->
         [profiles[j] EXCEPT !.state = IF j = i THEN "enabled" ELSE "disabled"]]
    [] op = "disable" -> [profiles EXCEPT ![i] = [@ EXCEPT !.state = "disabled"]]
    [] op = "delete" -> [j \in DOMAIN profiles \ {i} |-> profiles[j]]
    [] op = "nickname" -> [profiles EXCEPT ![i] = [@ EXCEPT !.nickname = name]]
    [] op = "reset" -> [j \in {} |-> Profile("disabled")]
EuiccTakes(op, i) ==
  \/ op = "reset"
  \/ i \in DOMAIN profiles /\ (op = "enable" => profiles[i].state = "disabled")
                           /\ (op = "disable" => profiles[i].state = "enabled")
                           /\ (op = "delete" => profiles[i].state = "disabled")

\* store_data_tlv.  A command of more than 255 bytes is not sent, and what comes back for it, as for an
\* answer without data, is no response: to show it raises.  A result other than ok is shown as such.
Sent(name) == name \notin LongNames
EuiccCommand(op, i, name, fate) ==
  LET takes == Sent(name) /\ EuiccTakes(op, i) /\ fate # "lost"
      result == IF EuiccTakes(op, i) THEN "ok" ELSE "refused"
  IN
  /\ Idle /\ jobs < MaxJobs /\ jobs' = jobs + 1
  /\ fate # "answered" => Sent(name) /\ refusals < MaxRefusals
  /\ refusals' = IF fate = "answered" THEN refusals ELSE refusals + 1
  /\ profiles' = IF takes THEN EuiccDoes(op, i, name) ELSE profiles
  /\ report' = [NoReport EXCEPT !.name = op, !.aid = i, !.cap = name,
                  !.how = IF Sent(name) /\ fate = "answered" THEN result ELSE "raised"]
  /\ UNCHANGED <<registry, task>>

-----------------------------------------------------------------------------
Aids == {CapFiles[c].aid : c \in DOMAIN CapFiles}
AppAids == UNION {ToSet(CapFiles[c].applets) : c \in DOMAIN CapFiles}
Kvns == {k[1] : k \in AllKeys} \cup {"none"}
Kids == {k[2] : k \in AllKeys} \cup {"none"}

ContentNext ==
  \/ \E c \in DOMAIN CapFiles, yes \in BOOLEAN : DoInstallCap(c, yes)
  \/ \E c \in DOMAIN CapFiles : IsCapFile(CapFiles[c]) /\ DoLoad(c)
  \/ \E aid \in Aids, token, hash \in BOOLEAN : DoInstallForLoad(aid, token, hash)
  \/ \E file \in Aids, app \in AppAids : DoInstallForInstall(file, app)
  \/ \E app \in AppAids : DoInstallForPersonalization(app) \/ DoSetStatus(app)
  \/ \E n \in Payloads : DoStoreData(n)
  \/ \E aid \in Aids \cup AppAids, related \in BOOLEAN : DoDeleteCardContent(aid, related)
  \/ \E kvn \in Kvns, kid \in Kids : DoDeleteKey(kvn, kid)
  \/ DoGetStatus \/ ResetCard
  \/ InstallForLoad \/ Load \/ InstallForInstall \/ InstallForPersonalization \/ StoreData
  \/ Delete \/ DeleteKey \/ SetStatus
  \/ \E sw \in {"9000", "6310", "error", "lost"} : GetStatus(sw)
  \/ \E op \in {"enable", "disable", "delete", "nickname", "reset"}, i \in Iccids,
        name \in LongNames \cup {""}, fate \in {"answered", "lost", "no_data"} :
       (op # "nickname" => name = "") /\ EuiccCommand(op, i, name, fate)

-----------------------------------------------------------------------------
\* Properties.

\* install_cap that returns has left the file's own code, whole and in order, and its first applet,
\* installed from it.
InstalledIsTheFile ==
  report.name = "install_cap" /\ report.how = "ok" =>
    LET cap == CapFiles[report.cap] IN
    /\ cap.aid \in Stored /\ registry.files[cap.aid] = GetLoadFile(cap)
    /\ Head(cap.applets) \in Installed /\ registry.apps[Head(cap.applets)] = cap.aid

\* However commands break off and are repeated, what is stored is one whole file's code, and each
\* application is one of a file that is stored.
NothingHalfLoaded ==
  /\ \A f \in Stored : \E c \in DOMAIN CapFiles : registry.files[f] = GetLoadFile(CapFiles[c])
  /\ \A a \in Installed : registry.apps[a] \in Stored

\* store_data that returns has given all of the data, in order, to the application meant.
DataWhole ==
  report.name = "store_data" /\ report.how = "ok" /\ report.list # <<>> =>
    report.aid \in DOMAIN registry.data /\ registry.data[report.aid] = report.list

\* delete_key that returns has left no key of the version and identifier it was given.
KeysAsMeant ==
  report.name = "delete_key" /\ report.how = "ok" => Matching(report.cap, report.aid) \cap registry.keys = {}

\* get_status shows what is there, each once, and all of it unless the card broke the list off.
StatusIsRegistry ==
  report.name = "get_status" /\ report.how = "ok" =>
    /\ IsPrefix(report.list, Entries)
    /\ report.whole => report.list = Entries

\* A command to the eUICC that shows ok has been done, to the profile it named; and no more than one
\* profile is ever enabled.
ShownIsDone ==
  /\ \A i, j \in DOMAIN profiles : profiles[i].state = "enabled" /\ profiles[j].state = "enabled" => i = j
  /\ report.how = "ok" =>
       /\ report.name = "enable" => profiles[report.aid].state = "enabled"
       /\ report.name = "disable" => profiles[report.aid].state = "disabled"
       /\ report.name = "delete" => report.aid \notin DOMAIN profiles
       /\ report.name = "nickname" => profiles[report.aid].nickname = report.cap

ContentTrusted == InstalledIsTheFile /\ NothingHalfLoaded /\ DataWhole /\ KeysAsMeant /\ StatusIsRegistry /\ ShownIsDone

=============================================================================
