--------------------- MODULE RebootOrchestration_proofs ---------------------
(***************************************************************************)
(* Proofs about RebootOrchestration for every set of children and of       *)
(* orchestrations.  The inductive invariant adds to the properties         *)
(*   Alone        two orchestrations that are under way at the same time   *)
(*                are both recorded as overlapped                          *)
(*   Ordered      which commands there can be in which phase, and after    *)
(*                which history                                            *)
(*   Recorded     while the children are stopped, one that is up is        *)
(*                recorded as running                                      *)
(*   Accounted    from the order of the reboot on, a child that is up or   *)
(*                recorded as running was started again or was never       *)
(*                stopped                                                  *)
(* The last two leave out what a record misled and the orchestrations that *)
(* overlapped or whose restart began early, as the properties do.  On top  *)
(* of it, Waiting says what an orchestration waits for, and OnlyForward    *)
(* what a step may do to it.                                               *)
(***************************************************************************)
EXTENDS RebootOrchestration, TLAPS

Alone == \A o \in UnderWay \ overlapped : UnderWay \subseteq {o}

Ordered ==
  \A o \in Orchestration :
    /\ o \in early => phase[o] \in {"restarting", "completed"}
    /\ o \in rebooted => phase[o] \notin {"none", "shutting_down"}
    /\ Reboot(o) \in commands =>
         \/ phase[o] = "rebooting" /\ o \notin rebooted
         \/ phase[o] \notin {"none", "shutting_down"} /\ o \in early \cup repeated
    /\ phase[o] \in {"restarting", "completed"} => o \in early \cup rebooted
    /\ unstopped[o] # {} => o \in expired
    /\ \A c \in Child :
         /\ <<"start", o, c>> \in commands => phase[o] \in {"restarting", "completed"}
         /\ restart[o][c] # "none" => c \in snapshot[o] /\ phase[o] \in {"restarting", "completed"}
         /\ <<o, c>> \in started => o \in rebooted

Recorded ==
  \A o \in Orchestration, c \in Child :
    phase[o] = "shutting_down" /\ c \in snapshot[o] /\ child[c] = "up"
      => status[c] = "running" \/ <<o, c>> \in misled \/ o \in overlapped

\* Why a child may be up, or recorded as running, after the reboot was ordered.
Explained(o, c) ==
  <<o, c>> \in started \cup misled \/ c \in unstopped[o] \/ o \in early \cup overlapped

Accounted ==
  \A o \in Orchestration, c \in Child :
    phase[o] \in {"rebooting", "restarting"} /\ c \in snapshot[o]
      => (child[c] = "up" \/ status[c] = "running" => Explained(o, c))

IInv ==
  /\ TypeOK
  /\ Alone
  /\ Ordered
  /\ Recorded
  /\ Accounted
  /\ RebootSparesChildren
  /\ RestartedWasStarted

-----------------------------------------------------------------------------
(* Commands.                                                               *)

\* Three kinds of commands.
LEMMA Commands ==
  ASSUME NEW o, NEW p, NEW c
  PROVE  /\ Reboot(o) # <<"stop", p, c>> /\ Reboot(o) # <<"start", p, c>>
         /\ Reboot(o)[2] = o
         /\ Reboot(o) = Reboot(p) => o = p
BY DEF Reboot

\* The commands for some children of an orchestration.
LEMMA ForEachMember ==
  ASSUME NEW a, NEW o, NEW C, NEW x
  PROVE  x \in ForEach(a, o, C) <=> \E c \in C : x = <<a, o, c>>
BY DEF ForEach

\* A child is stopped or started by nobody but an orchestration under way.
LEMMA CommandUnderWay ==
  ASSUME NEW a, NEW p \in Orchestration, NEW c, <<a, p, c>> \in commands
  PROVE  p \in UnderWay
<1>1. <<a, p, c>>[2] = p
  OBVIOUS
<1> QED BY <1>1 DEF UnderWay

\* Two orchestrations at a time are both recorded.
LEMMA OnlyOne ==
  ASSUME IInv, NEW o \in Orchestration, NEW p \in Orchestration, Active(o), o \notin overlapped,
         p \in UnderWay
  PROVE  p = o
<1>1. o \in UnderWay
  BY DEF UnderWay
<1> QED BY <1>1 DEF IInv, Alone

\* When no orchestration is requested, those under way were so before.
LEMMA AloneKept ==
  ASSUME IInv, overlapped \subseteq overlapped', UnderWay' \subseteq UnderWay
  PROVE  Alone'
BY DEF IInv, Alone

\* A count of the incidents stays a number.
LEMMA IncidentCounts ==
  ASSUME NEW b, incidents \in Nat, Incident(b) PROVE incidents' \in Nat
BY DEF Incident

-----------------------------------------------------------------------------
(* The inductive invariant.                                                *)

LEMMA Initially == Init => IInv
<1> SUFFICES ASSUME Init PROVE IInv
  OBVIOUS
<1>1. \A o \in Orchestration : phase[o] = "none" /\ snapshot[o] = {} /\ unstopped[o] = {}
  BY DEF Init, Nobody
<1>2. TypeOK
  BY <1>1 DEF Init, TypeOK, Nobody
<1>3. Alone
  BY <1>1 DEF Init, Alone, UnderWay, Active
<1>4. Ordered
  BY <1>1 DEF Init, Ordered
<1> QED BY <1>1, <1>2, <1>3, <1>4 DEF Init, IInv, Recorded, Accounted,
             RebootSparesChildren, RestartedWasStarted

LEMMA InitiateKeeps == ASSUME IInv, NEW o \in Orchestration, Initiate(o) PROVE IInv'
<1>1. /\ phase[o] = "none" /\ phase' = [phase EXCEPT ![o] = "shutting_down"]
      /\ snapshot' = [snapshot EXCEPT ![o] = Running] /\ Running # {}
      /\ commands' = commands \cup ForEach("stop", o, Running)
      /\ overlapped' = IF UnderWay = {} THEN overlapped ELSE overlapped \cup UnderWay \cup {o}
      /\ UNCHANGED <<agent, answers, listings, records, restart, expired, unstopped, early, deeds,
                     repeated, troubled>>
  BY DEF Initiate, Snapshot
<1>2. PICK withPlan \in PlanChoices :
        /\ planned' = planned \cup ForEach("stop", o, withPlan \cap Running)
        /\ correlated' = correlated \cup ForEach("stop", o, withPlan \cap Running)
  BY DEF Initiate
<1>3. UNCHANGED <<parentUp, child, status, misled, rebooted, started, hit>>
  BY <1>1 DEF agent, records, deeds
<1>4. Running \subseteq Child /\ \A c \in Running : status[c] = "running"
  BY DEF Running
<1>5. /\ \A x : x \in ForEach("stop", o, Running) <=> \E c \in Running : x = <<"stop", o, c>>
      /\ \A x : x \in ForEach("stop", o, withPlan \cap Running) =>
           \E c \in Running : x = <<"stop", o, c>>
  BY ForEachMember
<1>6. UnderWay \subseteq Orchestration /\ UnderWay' \subseteq UnderWay \cup {o}
  <2>1. \A p \in Orchestration : p # o => phase'[p] = phase[p]
    BY <1>1 DEF IInv, TypeOK
  <2>2. \A x \in commands' : x \in commands \/ x[2] = o
    BY <1>1, <1>5
  <2> QED BY <2>1, <2>2 DEF UnderWay, Active
<1>7. TypeOK'
  <2>1. \A c \in Running : <<"stop", o, c>> \in Command
    BY <1>4 DEF Command
  <2>2. commands' \subseteq Command /\ planned' \subseteq Command
    <3>1. commands \subseteq Command /\ planned \subseteq Command
      BY DEF IInv, TypeOK
    <3>2. \A x \in ForEach("stop", o, Running) : x \in Command
      BY <1>5, <2>1
    <3>3. \A x \in ForEach("stop", o, withPlan \cap Running) : x \in Command
      BY <1>5, <2>1
    <3> QED BY <1>1, <1>2, <3>1, <3>2, <3>3
  <2>3. correlated' \subseteq planned'
    BY <1>2 DEF IInv, TypeOK
  <2>4. /\ phase' \in [Orchestration -> {"none", "shutting_down", "rebooting", "restarting", "completed"}]
        /\ snapshot' \in [Orchestration -> SUBSET Child]
    BY <1>1, <1>4 DEF IInv, TypeOK
  <2>5. \A p \in Orchestration : phase'[p] = "none" <=> snapshot'[p] = {}
    BY <1>1 DEF IInv, TypeOK
  <2>6. incidents' \in Nat
    BY IncidentCounts DEF Initiate, IInv, TypeOK
  <2>7. overlapped' \subseteq Orchestration
    BY <1>1, <1>6 DEF IInv, TypeOK
  <2> QED BY <1>1, <1>3, <2>2, <2>3, <2>4, <2>5, <2>6, <2>7 DEF IInv, TypeOK, Command
<1>8. Alone'
  <2>1. CASE UnderWay = {}
    BY <1>6, <2>1 DEF Alone
  <2>2. CASE UnderWay # {}
    BY <1>1, <1>6, <2>2 DEF Alone
  <2> QED BY <2>1, <2>2
<1>9. \A p \in Orchestration :
        /\ Reboot(p) \in commands' <=> Reboot(p) \in commands
        /\ \A c \in Child : <<"start", p, c>> \in commands' <=> <<"start", p, c>> \in commands
  BY <1>1, <1>5, Commands
<1>10. \A p \in Orchestration : p # o => phase'[p] = phase[p] /\ snapshot'[p] = snapshot[p]
  BY <1>1 DEF IInv, TypeOK
<1>11. phase'[o] = "shutting_down" /\ snapshot'[o] = Running /\ overlapped \subseteq overlapped'
  BY <1>1 DEF IInv, TypeOK
<1>12. /\ Reboot(o) \notin commands /\ o \notin early \cup rebooted
       /\ \A c \in Child : /\ restart[o][c] = "none" /\ <<"start", o, c>> \notin commands
                           /\ <<o, c>> \notin started
  BY <1>1 DEF IInv, Ordered
<1>13. Ordered'
  <2>1. Ordered /\ UNCHANGED <<early, rebooted, repeated, unstopped, expired, restart, started>>
    BY <1>1, <1>3 DEF IInv
  <2>2. \A p \in Orchestration : Reboot(p)' = Reboot(p)
    BY DEF Reboot
  <2> QED BY <1>9, <1>10, <1>11, <1>12, <2>1, <2>2 DEF Ordered
<1>14. Recorded'
  BY <1>1, <1>3, <1>4, <1>10, <1>11 DEF IInv, Recorded
<1>15. Accounted'
  BY <1>1, <1>3, <1>10, <1>11 DEF IInv, Accounted, Explained
<1>16. RebootSparesChildren' /\ RestartedWasStarted'
  BY <1>1, <1>3, <1>11 DEF IInv, RebootSparesChildren, RestartedWasStarted
<1> QED BY <1>7, <1>8, <1>13, <1>14, <1>15, <1>16 DEF IInv

LEMMA ExpireKeeps == ASSUME IInv, NEW o \in Orchestration, Expire(o) PROVE IInv'
<1>1. /\ expired' = expired \cup {o}
      /\ UNCHANGED <<agent, inFlight, records, course, plans, deeds, mishaps, concurrence>>
  BY DEF Expire
<1>2. UNCHANGED <<parentUp, child, commands, answers, listings, status, misled, phase, snapshot, restart,
                  unstopped, planned, correlated, rebooted, started, hit, repeated, troubled, incidents,
                  early, overlapped>>
  BY <1>1 DEF agent, inFlight, records, course, plans, deeds, mishaps, concurrence
<1>3. TypeOK' /\ Alone'
  BY <1>1, <1>2 DEF IInv, TypeOK, Command, Alone, UnderWay, Active
<1>4. Ordered'
  BY <1>1, <1>2 DEF IInv, Ordered, Reboot
<1> QED BY <1>1, <1>2, <1>3, <1>4 DEF IInv, Recorded, Accounted, Explained, RebootSparesChildren,
                                      RestartedWasStarted

LEMMA HeartbeatKeeps == ASSUME IInv, Heartbeat PROVE IInv'
<1>1. PICK o \in Orchestration :
        /\ phase[o] = "rebooting"
        /\ phase' = [phase EXCEPT ![o] = "restarting"]
        /\ restart' = [restart EXCEPT ![o] =
                         [c \in Child |-> IF c \in snapshot[o] THEN "pending" ELSE "none"]]
        /\ commands' = commands \cup ForEach("start", o, snapshot[o])
        /\ \E withPlan \in PlanChoices :
             planned' = planned \cup ForEach("start", o, withPlan \cap snapshot[o])
        /\ early' = IF o \in rebooted THEN early ELSE early \cup {o}
  BY DEF Heartbeat
<1>2. UNCHANGED <<parentUp, child, answers, listings, status, misled, snapshot, expired, unstopped,
                  correlated, overlapped, rebooted, started, hit, repeated, troubled, incidents>>
  BY DEF Heartbeat, agent, records, deeds, mishaps
<1>3. PICK withPlan : planned' = planned \cup ForEach("start", o, withPlan \cap snapshot[o])
  BY <1>1
<1>4. snapshot[o] \subseteq Child
  BY DEF IInv, TypeOK
<1>5. /\ \A x : x \in ForEach("start", o, snapshot[o]) <=> \E c \in snapshot[o] : x = <<"start", o, c>>
      /\ \A x : x \in ForEach("start", o, withPlan \cap snapshot[o]) =>
           \E c \in snapshot[o] : x = <<"start", o, c>>
  BY ForEachMember
<1>6. TypeOK'
  <2>1. \A c \in snapshot[o] : <<"start", o, c>> \in Command
    BY <1>4 DEF Command
  <2>2. commands' \subseteq Command /\ planned' \subseteq Command
    <3>1. commands \subseteq Command /\ planned \subseteq Command
      BY DEF IInv, TypeOK
    <3>2. \A x \in ForEach("start", o, snapshot[o]) : x \in Command
      BY <1>5, <2>1
    <3>3. \A x \in ForEach("start", o, withPlan \cap snapshot[o]) : x \in Command
      BY <1>5, <2>1
    <3> QED BY <1>1, <1>3, <3>1, <3>2, <3>3
  <2>3. correlated' \subseteq planned'
    BY <1>2, <1>3 DEF IInv, TypeOK
  <2>4. /\ phase' \in [Orchestration -> {"none", "shutting_down", "rebooting", "restarting", "completed"}]
        /\ restart' \in [Orchestration -> [Child -> {"none", "pending", "running", "failed"}]]
    BY <1>1 DEF IInv, TypeOK
  <2>5. \A p \in Orchestration : phase'[p] = "none" <=> snapshot'[p] = {}
    BY <1>1, <1>2 DEF IInv, TypeOK
  <2> QED BY <1>1, <1>2, <2>2, <2>3, <2>4, <2>5 DEF IInv, TypeOK, Command
<1>7. \A p \in Orchestration : p # o => phase'[p] = phase[p] /\ restart'[p] = restart[p]
  BY <1>1 DEF IInv, TypeOK
<1>8. phase'[o] = "restarting" /\ \A c \in Child :
        restart'[o][c] = IF c \in snapshot[o] THEN "pending" ELSE "none"
  BY <1>1 DEF IInv, TypeOK
<1>9. UnderWay' \subseteq UnderWay
  <2>1. \A x \in commands' : x \in commands \/ x[2] = o
    BY <1>1, <1>5
  <2> QED BY <1>1, <1>7, <2>1 DEF UnderWay, Active
<1>10. \A p \in Orchestration :
        /\ Reboot(p) \in commands' <=> Reboot(p) \in commands
        /\ \A c \in Child :
             p # o => (<<"start", p, c>> \in commands' <=> <<"start", p, c>> \in commands)
  BY <1>1, <1>5, Commands
<1>11. early \subseteq early' /\ early' \subseteq early \cup {o} /\ (o \notin rebooted => o \in early')
  BY <1>1
<1>12. Alone'
  BY <1>2, <1>9, AloneKept
<1>13. Ordered'
  <2>1. Ordered /\ UNCHANGED <<rebooted, repeated, unstopped, expired, started, snapshot>>
    BY <1>2 DEF IInv
  <2>2. \A p \in Orchestration : Reboot(p)' = Reboot(p)
    BY DEF Reboot
  <2>3. ASSUME NEW p \in Orchestration, p # o
        PROVE  /\ p \in early' => phase'[p] \in {"restarting", "completed"}
               /\ Reboot(p) \in commands' =>
                    \/ phase'[p] = "rebooting" /\ p \notin rebooted
                    \/ phase'[p] \notin {"none", "shutting_down"} /\ p \in early' \cup repeated
               /\ phase'[p] \in {"restarting", "completed"} => p \in early' \cup rebooted
               /\ \A c \in Child :
                    /\ <<"start", p, c>> \in commands' => phase'[p] \in {"restarting", "completed"}
                    /\ restart'[p][c] # "none" =>
                         c \in snapshot[p] /\ phase'[p] \in {"restarting", "completed"}
    BY <1>7, <1>10, <1>11, <2>1, <2>3 DEF Ordered
  <2>4. ASSUME Reboot(o) \in commands' PROVE o \in early' \cup repeated
    BY <1>1, <1>10, <1>11, <2>1, <2>4 DEF Ordered
  <2>5. \A p \in Orchestration :
          p \in rebooted => phase'[p] \notin {"none", "shutting_down"}
    BY <1>7, <1>8, <2>1 DEF Ordered
  <2> QED BY <1>7, <1>8, <1>11, <2>1, <2>2, <2>3, <2>4, <2>5 DEF Ordered
<1>14. Recorded'
  BY <1>2, <1>7, <1>8 DEF IInv, Recorded
<1>15. Accounted'
  BY <1>1, <1>2, <1>7, <1>8, <1>11 DEF IInv, Accounted, Explained
<1>16. RebootSparesChildren' /\ RestartedWasStarted'
  BY <1>2, <1>7, <1>8, <1>11 DEF IInv, RebootSparesChildren, RestartedWasStarted
<1> QED BY <1>6, <1>12, <1>13, <1>14, <1>15, <1>16 DEF IInv

-----------------------------------------------------------------------------
(* The agent's steps.                                                      *)

\* A step that starts no child and orders nothing.
LEMMA DownKeeps ==
  ASSUME IInv, TypeOK', commands' \subseteq commands, repeated \subseteq repeated',
         \A c \in Child : child'[c] = "up" => child[c] = "up",
         UNCHANGED <<status, misled, phase, snapshot, restart, unstopped, expired, early, overlapped,
                     rebooted, started, hit>>
  PROVE  IInv'
<1>1. Alone'
  <2>1. UnderWay' \subseteq UnderWay
    BY DEF UnderWay, Active
  <2> QED BY <2>1, AloneKept
<1>2. Ordered'
  BY DEF IInv, Ordered, Reboot
<1>3. Recorded' /\ Accounted'
  BY DEF IInv, Recorded, Accounted, Explained
<1>4. RebootSparesChildren' /\ RestartedWasStarted'
  BY DEF IInv, RebootSparesChildren, RestartedWasStarted
<1> QED BY <1>1, <1>2, <1>3, <1>4 DEF IInv

\* The types of what carrying out a command changes.
LEMMA CarriedOutTypes ==
  ASSUME IInv, NEW a \in {"stop", "start"}, NEW o \in Orchestration, NEW c \in Child,
         NEW kept \in BOOLEAN, NEW outcome \in {"ok", "failed"}, NEW b,
         CarriedOut(<<a, o, c>>, kept), Answer(<<a, o, c>>, outcome), Incident(b)
  PROVE  /\ commands' \subseteq commands /\ commands' \subseteq Command
         /\ answers' \subseteq Command \X {"ok", "failed"}
         /\ repeated \subseteq repeated' /\ repeated' \subseteq Orchestration
         /\ troubled \subseteq troubled' /\ troubled' \subseteq Orchestration
         /\ incidents' \in Nat
<1>1. <<a, o, c>> \in Command /\ <<a, o, c>>[2] = o
  BY DEF Command
<1>2. incidents' \in Nat
  BY IncidentCounts DEF IInv, TypeOK
<1>3. /\ commands' = IF kept THEN commands ELSE commands \ {<<a, o, c>>}
      /\ repeated' = IF kept THEN repeated \cup {o} ELSE repeated
  BY <1>1 DEF CarriedOut
<1>4. /\ answers' = answers \cup {<<<<a, o, c>>, outcome>>}
      /\ troubled' = IF outcome = "ok" THEN troubled ELSE troubled \cup {o}
  BY <1>1 DEF Answer
<1>5. /\ commands \subseteq Command /\ answers \subseteq Command \X {"ok", "failed"}
      /\ repeated \subseteq Orchestration /\ troubled \subseteq Orchestration
  BY DEF IInv, TypeOK
<1>6. <<<<a, o, c>>, outcome>> \in Command \X {"ok", "failed"}
  BY <1>1
<1> HIDE DEF Command
<1> QED BY <1>2, <1>3, <1>4, <1>5, <1>6

LEMMA StopKeeps ==
  ASSUME IInv, NEW o \in Orchestration, NEW c \in Child, Stop(o, c) PROVE IInv'
<1>1. PICK kept \in BOOLEAN, outcome \in {"ok", "failed"} :
        /\ CarriedOut(<<"stop", o, c>>, kept)
        /\ Answer(<<"stop", o, c>>, outcome)
        /\ Incident(kept \/ outcome = "failed")
        /\ \/ child' = [child EXCEPT ![c] = "down"]
           \/ outcome = "failed" /\ UNCHANGED child
        /\ UNCHANGED <<parentUp, listings, records, course, expired, plans, deeds, concurrence>>
  BY DEF Stop
<1>2. UNCHANGED <<parentUp, listings, status, misled, phase, snapshot, restart, unstopped, expired, planned,
                  correlated, rebooted, started, hit, early, overlapped>>
  BY <1>1 DEF records, course, plans, deeds, concurrence
<1>3. /\ commands' \subseteq commands /\ commands' \subseteq Command
      /\ answers' \subseteq Command \X {"ok", "failed"}
      /\ repeated \subseteq repeated' /\ repeated' \subseteq Orchestration
      /\ troubled' \subseteq Orchestration /\ incidents' \in Nat
  BY <1>1, CarriedOutTypes
<1>4. /\ child' \in [Child -> {"up", "down", "broken"}]
      /\ \A d \in Child : child'[d] = "up" => child[d] = "up"
  BY <1>1 DEF IInv, TypeOK
<1>5. TypeOK'
  BY <1>2, <1>3, <1>4 DEF IInv, TypeOK, Command
<1> QED BY <1>2, <1>3, <1>4, <1>5, DownKeeps

LEMMA RebootKeeps == ASSUME IInv, NEW o \in Orchestration, DoReboot(o) PROVE IInv'
<1>1. PICK kept \in BOOLEAN :
        /\ CarriedOut(Reboot(o), kept)
        /\ Incident(kept)
        /\ parentUp' = FALSE
        /\ child' = [c \in Child |-> IF child[c] = "up" THEN "down" ELSE child[c]]
        /\ rebooted' = rebooted \cup {o}
        /\ hit' = hit \cup {<<o, c>> : c \in {d \in snapshot[o] : child[d] = "up"}}
        /\ UNCHANGED <<answers, listings, records, course, expired, plans, started, troubled, concurrence>>
  BY DEF DoReboot
<1>2. UNCHANGED <<answers, listings, status, misled, phase, snapshot, restart, unstopped, expired, planned,
                  correlated, started, troubled, early, overlapped>>
  BY <1>1 DEF records, course, plans, concurrence
<1>3. /\ Reboot(o) \in commands
      /\ commands' = IF kept THEN commands ELSE commands \ {Reboot(o)}
      /\ repeated' = IF kept THEN repeated \cup {o} ELSE repeated
  BY <1>1, Commands DEF CarriedOut
<1>4. TypeOK'
  <2>1. commands' \subseteq Command /\ repeated' \subseteq Orchestration /\ rebooted' \subseteq Orchestration
    BY <1>1, <1>3 DEF IInv, TypeOK
  <2>2. child' \in [Child -> {"up", "down", "broken"}] /\ hit' \subseteq Orchestration \X Child
    BY <1>1 DEF IInv, TypeOK
  <2>3. incidents' \in Nat
    BY <1>1, IncidentCounts DEF IInv, TypeOK
  <2> QED BY <1>1, <1>2, <2>1, <2>2, <2>3 DEF IInv, TypeOK, Command
<1>5. Alone'
  <2>1. UnderWay' \subseteq UnderWay
    BY <1>2, <1>3 DEF UnderWay, Active
  <2> QED BY <1>2, <2>1, AloneKept
<1>6. Ordered'
  <2>1. Ordered
    BY DEF IInv
  <2>2. commands' \subseteq commands /\ repeated \subseteq repeated'
        /\ (Reboot(o) \in commands' => o \in repeated')
    BY <1>3
  <2>3. \A p \in Orchestration : Reboot(p)' = Reboot(p)
    BY DEF Reboot
  <2>4. phase[o] \notin {"none", "shutting_down"}
    BY <1>3, <2>1 DEF Ordered
  <2> QED BY <1>1, <1>2, <2>1, <2>2, <2>3, <2>4 DEF Ordered
<1>7. \A c \in Child : child'[c] # "up"
  BY <1>1 DEF IInv, TypeOK
<1>8. Recorded' /\ Accounted'
  BY <1>2, <1>7 DEF IInv, Recorded, Accounted, Explained
<1>9. RebootSparesChildren'
  <2>1. ASSUME NEW c \in Child, c \in snapshot[o], child[c] = "up"
        PROVE  o \in expired \cup early \cup repeated \cup overlapped \/ <<o, c>> \in misled
    <3> SUFFICES ASSUME o \notin early \cup repeated \cup overlapped, <<o, c>> \notin misled
                 PROVE  o \in expired
      OBVIOUS
    <3>1. phase[o] = "rebooting" /\ o \notin rebooted
      BY <1>3 DEF IInv, Ordered
    <3>2. c \in unstopped[o]
      BY <2>1, <3>1 DEF IInv, Accounted, Explained, Ordered
    <3> QED BY <3>2 DEF IInv, Ordered
  <2> QED BY <1>1, <1>2, <1>3, <2>1 DEF IInv, RebootSparesChildren
<1>10. RestartedWasStarted'
  BY <1>2 DEF IInv, RestartedWasStarted
<1> QED BY <1>4, <1>5, <1>6, <1>8, <1>9, <1>10 DEF IInv

LEMMA StartKeeps ==
  ASSUME IInv, NEW o \in Orchestration, NEW c \in Child, Start(o, c) PROVE IInv'
<1>1. PICK kept \in BOOLEAN, outcome \in {"ok", "failed"} :
        /\ CarriedOut(<<"start", o, c>>, kept)
        /\ Answer(<<"start", o, c>>, outcome)
        /\ Incident(kept \/ outcome = "failed")
        /\ child' = [child EXCEPT ![c] = IF outcome = "ok" THEN "up" ELSE "broken"]
        /\ started' = IF outcome = "ok" /\ o \in rebooted THEN started \cup {<<o, c>>} ELSE started
        /\ UNCHANGED <<parentUp, listings, records, course, expired, plans, rebooted, hit, concurrence>>
  BY DEF Start
<1>2. UNCHANGED <<parentUp, listings, status, misled, phase, snapshot, restart, unstopped, expired, planned,
                  correlated, rebooted, hit, early, overlapped>>
  BY <1>1 DEF records, course, plans, concurrence
<1>3. /\ commands' \subseteq commands /\ commands' \subseteq Command
      /\ answers' \subseteq Command \X {"ok", "failed"}
      /\ repeated \subseteq repeated' /\ repeated' \subseteq Orchestration
      /\ troubled' \subseteq Orchestration /\ incidents' \in Nat
  BY <1>1, CarriedOutTypes
<1>4. /\ child' \in [Child -> {"up", "down", "broken"}]
      /\ \A d \in Child : d # c /\ child'[d] = "up" => child[d] = "up"
      /\ started \subseteq started' /\ started' \subseteq Orchestration \X Child
      /\ started' # started => o \in rebooted
      /\ child'[c] = "up" => <<o, c>> \in started' \/ o \notin rebooted
  BY <1>1 DEF IInv, TypeOK
<1>5. TypeOK'
  BY <1>2, <1>3, <1>4 DEF IInv, TypeOK, Command
<1>6. Alone'
  <2>1. UnderWay' \subseteq UnderWay
    BY <1>2, <1>3 DEF UnderWay, Active
  <2> QED BY <1>2, <2>1, AloneKept
<1>7. Ordered'
  <2>1. Ordered
    BY DEF IInv
  <2>2. \A p \in Orchestration : Reboot(p)' = Reboot(p)
    BY DEF Reboot
  <2>3. \A p \in Orchestration, d \in Child : <<p, d>> \in started' => p \in rebooted
    BY <1>1, <2>1 DEF Ordered
  <2> QED BY <1>2, <1>3, <2>1, <2>2, <2>3 DEF Ordered
<1>8. <<"start", o, c>> \in commands
  BY <1>1 DEF CarriedOut
<1>9. phase[o] \in {"restarting", "completed"} /\ o \in early \cup rebooted
  BY <1>8 DEF IInv, Ordered
<1>10. \A p \in Orchestration : Active(p) /\ p \notin overlapped => p = o
  BY <1>8, OnlyOne, CommandUnderWay
<1>11. Recorded'
  <2>1. ASSUME NEW p \in Orchestration, NEW d \in Child,
               phase[p] = "shutting_down", d \in snapshot[p], child'[d] = "up"
        PROVE  status[d] = "running" \/ <<p, d>> \in misled \/ p \in overlapped
    <3>1. CASE d # c
      BY <1>4, <2>1, <3>1 DEF IInv, Recorded
    <3>2. CASE d = c
      BY <1>9, <1>10, <2>1 DEF Active
    <3> QED BY <3>1, <3>2
  <2> QED BY <1>2, <2>1 DEF Recorded
<1>12. Accounted'
  <2>1. \A p \in Orchestration, d \in Child : Explained(p, d) => Explained(p, d)'
    BY <1>2, <1>4 DEF Explained
  <2>2. ASSUME NEW p \in Orchestration, NEW d \in Child,
               phase[p] \in {"rebooting", "restarting"}, d \in snapshot[p], child'[d] = "up"
        PROVE  Explained(p, d)'
    <3>1. CASE d # c
      BY <1>4, <2>1, <2>2, <3>1 DEF IInv, Accounted
    <3>2. CASE d = c
      BY <1>2, <1>4, <1>9, <1>10, <2>2, <3>2 DEF Active, Explained
    <3> QED BY <3>1, <3>2
  <2>3. ASSUME NEW p \in Orchestration, NEW d \in Child,
               phase[p] \in {"rebooting", "restarting"}, d \in snapshot[p], status[d] = "running"
        PROVE  Explained(p, d)'
    BY <2>1, <2>3 DEF IInv, Accounted
  <2> QED BY <1>2, <2>2, <2>3 DEF Accounted
<1>13. RebootSparesChildren' /\ RestartedWasStarted'
  BY <1>2, <1>3, <1>4 DEF IInv, RebootSparesChildren, RestartedWasStarted
<1> QED BY <1>5, <1>6, <1>7, <1>11, <1>12, <1>13 DEF IInv

LEMMA LoseKeeps == ASSUME IInv, NEW o \in Orchestration, Lose(o) PROVE IInv'
<1>1. /\ commands' \subseteq commands /\ answers' \subseteq answers
      /\ troubled' = troubled \cup {o} /\ Incident(TRUE)
      /\ UNCHANGED <<agent, listings, records, course, expired, plans, deeds, repeated, concurrence>>
  BY DEF Lose
<1>2. UNCHANGED <<parentUp, child, listings, status, misled, phase, snapshot, restart, unstopped, expired,
                  planned, correlated, rebooted, started, hit, repeated, early, overlapped>>
  BY <1>1 DEF agent, records, course, plans, deeds, concurrence
<1>3. incidents' \in Nat
  BY <1>1, IncidentCounts DEF IInv, TypeOK
<1>4. TypeOK'
  BY <1>1, <1>2, <1>3 DEF IInv, TypeOK, Command
<1> QED BY <1>1, <1>2, <1>4, DownKeeps

LEMMA ObserveKeeps == ASSUME IInv, Observe PROVE IInv'
<1>1. /\ listings' = listings \cup {child} /\ Incident(TRUE)
      /\ UNCHANGED <<agent, commands, answers, records, course, expired, plans, deeds, repeated, troubled,
                     concurrence>>
  BY DEF Observe
<1>2. UNCHANGED <<parentUp, child, commands, answers, status, misled, phase, snapshot, restart, unstopped,
                  expired, planned, correlated, rebooted, started, hit, repeated, troubled, early, overlapped>>
  BY <1>1 DEF agent, records, course, plans, deeds, concurrence
<1>3. incidents' \in Nat /\ listings' \subseteq [Child -> {"up", "down", "broken"}]
  BY <1>1, IncidentCounts DEF IInv, TypeOK
<1>4. TypeOK'
  BY <1>1, <1>2, <1>3 DEF IInv, TypeOK, Command
<1> QED BY <1>1, <1>2, <1>4, DownKeeps

LEMMA BootsKeeps == ASSUME IInv, ParentBoots PROVE IInv'
<1>1. /\ parentUp' = TRUE
      /\ UNCHANGED <<child, inFlight, records, course, expired, plans, deeds, mishaps, concurrence>>
  BY DEF ParentBoots
<1>2. UNCHANGED <<child, commands, answers, listings, status, misled, phase, snapshot, restart, unstopped,
                  expired, planned, correlated, rebooted, started, hit, repeated, troubled, incidents,
                  early, overlapped>>
  BY <1>1 DEF inFlight, records, course, plans, deeds, mishaps, concurrence
<1>3. TypeOK'
  BY <1>1, <1>2 DEF IInv, TypeOK, Command
<1> QED BY <1>1, <1>2, <1>3, DownKeeps

-----------------------------------------------------------------------------
(* The server's steps: a record, and then a look at the progress.          *)

\* What a record leaves true of the orchestrations as they are.
Learned ==
  /\ status' \in [Child -> {"running", "stopped", "error"}]
  /\ misled \subseteq misled' /\ misled' \subseteq Orchestration \X Child
  /\ \A o \in Orchestration, c \in Child :
       /\ phase[o] = "shutting_down" /\ c \in snapshot[o] /\ child[c] = "up"
            => status'[c] = "running" \/ <<o, c>> \in misled' \/ o \in overlapped
       /\ phase[o] \in {"rebooting", "restarting"} /\ c \in snapshot[o] /\ status'[c] = "running"
            => Explained(o, c) \/ <<o, c>> \in misled'

LEMMA RecordLearns ==
  ASSUME IInv, NEW recorded \in [Child -> {"running", "stopped", "error"}], Record(recorded)
  PROVE  Learned
<1> DEFINE wrong == {c \in Child : recorded[c] # status[c] /\ (recorded[c] = "running" <=> child[c] # "up")}
<1>1. /\ status' = recorded
      /\ misled' = misled \cup {t \in Targets : Active(t[1]) /\ t[2] \in wrong}
  BY DEF Record
<1>2. misled \subseteq misled' /\ misled' \subseteq Orchestration \X Child
  BY <1>1 DEF IInv, TypeOK, Targets
<1>3. \A o \in Orchestration, c \in Child :
        Active(o) /\ c \in snapshot[o] /\ c \in wrong => <<o, c>> \in misled'
  BY <1>1 DEF Targets
<1>4. ASSUME NEW o \in Orchestration, NEW c \in Child, c \in snapshot[o], Active(o),
             recorded[c] # status[c], <<o, c>> \notin misled'
      PROVE  recorded[c] = "running" <=> child[c] = "up"
  BY <1>3, <1>4
<1>5. ASSUME NEW o \in Orchestration, NEW c \in Child,
             phase[o] = "shutting_down", c \in snapshot[o], child[c] = "up"
      PROVE  status'[c] = "running" \/ <<o, c>> \in misled' \/ o \in overlapped
  <2>1. status[c] = "running" \/ <<o, c>> \in misled \/ o \in overlapped
    BY <1>5 DEF IInv, Recorded
  <2> QED BY <1>1, <1>2, <1>4, <1>5, <2>1 DEF Active
<1>6. ASSUME NEW o \in Orchestration, NEW c \in Child,
             phase[o] \in {"rebooting", "restarting"}, c \in snapshot[o], status'[c] = "running"
      PROVE  Explained(o, c) \/ <<o, c>> \in misled'
  <2>1. child[c] = "up" \/ status[c] = "running" => Explained(o, c)
    BY <1>6 DEF IInv, Accounted
  <2> QED BY <1>1, <1>4, <1>6, <2>1 DEF Active
<1> QED BY <1>1, <1>2, <1>5, <1>6 DEF Learned

LEMMA NothingLearnt ==
  ASSUME IInv, UNCHANGED records
  PROVE  Learned
BY DEF IInv, TypeOK, Recorded, Accounted, Explained, Learned, records

\* What a look at the progress of a shutdown may change.
ShutdownMoved(p) ==
  /\ phase[p] = "shutting_down"
  /\ StillRunning(p, status') = {} \/ p \in expired
  /\ phase' = [phase EXCEPT ![p] = "rebooting"]
  /\ commands' = commands \cup {Reboot(p)}
  /\ unstopped' = [unstopped EXCEPT ![p] = StillRunning(p, status')]

LEMMA ShutdownMoves ==
  ASSUME CheckShutdown
  PROVE  UNCHANGED <<phase, commands, unstopped>> \/ \E p \in Orchestration : ShutdownMoved(p)
BY DEF CheckShutdown, ShutdownMoved

LEMMA ShutdownTypes ==
  ASSUME IInv, NEW p \in Orchestration, ShutdownMoved(p)
  PROVE  /\ commands' \subseteq Command
         /\ phase' \in [Orchestration -> {"none", "shutting_down", "rebooting", "restarting", "completed"}]
         /\ unstopped' \in [Orchestration -> SUBSET Child]
         /\ \A q \in Orchestration : phase'[q] = "none" <=> phase[q] = "none"
         /\ phase'[p] = "rebooting" /\ unstopped'[p] = StillRunning(p, status')
         /\ \A q \in Orchestration : q # p => phase'[q] = phase[q] /\ unstopped'[q] = unstopped[q]
<1>1. snapshot[p] # {} /\ snapshot[p] \subseteq Child
  BY DEF ShutdownMoved, IInv, TypeOK
<1>2. Reboot(p) \in Command
  BY <1>1 DEF Reboot, Command
<1>3. commands' \subseteq Command
  BY <1>2 DEF ShutdownMoved, IInv, TypeOK
<1>4. StillRunning(p, status') \subseteq Child
  BY <1>1 DEF StillRunning
<1> QED BY <1>3, <1>4 DEF ShutdownMoved, IInv, TypeOK

LEMMA ShutdownKeeps ==
  ASSUME IInv, TypeOK', Learned, repeated \subseteq repeated',
         UNCHANGED <<child, snapshot, restart, expired, early, overlapped, rebooted, started, hit>>,
         NEW p \in Orchestration, ShutdownMoved(p)
  PROVE  IInv'
<1>1. /\ phase'[p] = "rebooting" /\ unstopped'[p] = StillRunning(p, status')
      /\ \A q \in Orchestration : q # p => phase'[q] = phase[q] /\ unstopped'[q] = unstopped[q]
      /\ phase[p] = "shutting_down" /\ commands' = commands \cup {Reboot(p)}
      /\ StillRunning(p, status') # {} => p \in expired
  BY ShutdownTypes DEF ShutdownMoved
<1>2. misled \subseteq misled'
  BY DEF Learned
<1>3. \A q \in Orchestration, d \in Child : q # p /\ Explained(q, d) => Explained(q, d)'
  BY <1>1, <1>2 DEF Explained
<1>4. Alone'
  <2>1. \A x \in commands' : x \in commands \/ x[2] = p
    BY <1>1, Commands
  <2>2. UnderWay' \subseteq UnderWay
    BY <1>1, <2>1 DEF UnderWay, Active
  <2> QED BY <2>2, AloneKept
<1>5. Ordered'
  <2>1. Ordered
    BY DEF IInv
  <2>2. \A q \in Orchestration : Reboot(q)' = Reboot(q)
    BY DEF Reboot
  <2>3. /\ \A q \in Orchestration : q # p => (Reboot(q) \in commands' <=> Reboot(q) \in commands)
        /\ \A q \in Orchestration, d \in Child : <<"start", q, d>> \in commands' <=> <<"start", q, d>> \in commands
    BY <1>1, Commands
  <2>4. p \notin rebooted /\ p \notin early
    BY <1>1, <2>1 DEF Ordered
  <2> QED BY <1>1, <2>1, <2>2, <2>3, <2>4 DEF Ordered
<1>6. Recorded'
  BY <1>1 DEF Recorded, Learned
<1>7. Accounted'
  <2>1. ASSUME NEW q \in Orchestration, NEW d \in Child, phase'[q] \in {"rebooting", "restarting"},
               d \in snapshot[q], child[d] = "up" \/ status'[d] = "running"
        PROVE  Explained(q, d)'
    <3>1. CASE q = p
      <4>1. status'[d] = "running" => d \in unstopped'[p]
        BY <1>1, <2>1, <3>1 DEF StillRunning
      <4>2. status'[d] = "running" \/ <<p, d>> \in misled' \/ p \in overlapped
        BY <1>1, <2>1, <3>1 DEF Learned
      <4> QED BY <3>1, <4>1, <4>2 DEF Explained
    <3>2. CASE q # p
      <4>1. Explained(q, d) \/ <<q, d>> \in misled'
        BY <1>1, <2>1, <3>2 DEF Learned, IInv, Accounted
      <4> QED BY <1>3, <3>2, <4>1 DEF Explained
    <3> QED BY <3>1, <3>2
  <2> QED BY <2>1 DEF Accounted
<1>8. RebootSparesChildren'
  BY <1>2 DEF IInv, RebootSparesChildren
<1>9. RestartedWasStarted'
  <2>1. \A c \in Child : restart[p][c] = "none"
    BY <1>1 DEF IInv, Ordered
  <2> QED BY <1>1, <1>2, <2>1 DEF IInv, RestartedWasStarted
<1> QED BY <1>4, <1>5, <1>6, <1>7, <1>8, <1>9 DEF IInv

\* Progress recorded for a child.
LEMMA ProgressKind ==
  ASSUME NEW recorded \in {"running", "stopped", "error"},
         NEW old \in {"none", "pending", "running", "failed"}
  PROVE  /\ Progress(recorded, old) \in {"none", "pending", "running", "failed"}
         /\ Progress(recorded, old) # "none" => old # "none"
         /\ Progress(recorded, old) = "running" => recorded = "running" \/ old = "running"
BY DEF Progress

\* What a look at the progress of a restart may change.
RestartMoved ==
  /\ phase' \in [Orchestration -> {"none", "shutting_down", "rebooting", "restarting", "completed"}]
  /\ restart' \in [Orchestration -> [Child -> {"none", "pending", "running", "failed"}]]
  /\ \A p \in Orchestration :
       \/ phase'[p] = phase[p]
       \/ phase[p] = "restarting" /\ phase'[p] = "completed"
  /\ \A p \in Orchestration, c \in Child :
       /\ restart'[p][c] # "none" => restart[p][c] # "none"
       /\ restart'[p][c] = "running" =>
            \/ restart[p][c] = "running"
            \/ phase[p] = "restarting" /\ status'[c] = "running" /\ restart[p][c] # "none"

\* A look at the progress, or none, does so.
LEMMA ProgressMoves ==
  ASSUME IInv, CheckRestart \/ UNCHANGED <<phase, restart>>, Learned
  PROVE  RestartMoved
<1>1. CASE UNCHANGED <<phase, restart>>
  BY <1>1 DEF IInv, TypeOK, RestartMoved
<1>2. ASSUME NEW o \in Orchestration, phase[o] = "restarting",
             restart' = [restart EXCEPT ![o] = [c \in Child |-> Progress(status'[c], restart[o][c])]],
             phase' = [phase EXCEPT ![o] = "completed"] \/ phase' = phase
      PROVE  RestartMoved
  <2>1. \A c \in Child :
          /\ status'[c] \in {"running", "stopped", "error"}
          /\ restart[o][c] \in {"none", "pending", "running", "failed"}
    BY DEF IInv, TypeOK, Learned
  <2>2. restart' \in [Orchestration -> [Child -> {"none", "pending", "running", "failed"}]]
    BY <1>2, <2>1, ProgressKind DEF IInv, TypeOK
  <2>3. \A c \in Child : restart'[o][c] = Progress(status'[c], restart[o][c])
    BY <1>2 DEF IInv, TypeOK
  <2>4. \A p \in Orchestration : p # o => restart'[p] = restart[p]
    BY <1>2 DEF IInv, TypeOK
  <2>5. \A p \in Orchestration, c \in Child :
          /\ restart'[p][c] # "none" => restart[p][c] # "none"
          /\ restart'[p][c] = "running" =>
               \/ restart[p][c] = "running"
               \/ phase[p] = "restarting" /\ status'[c] = "running" /\ restart[p][c] # "none"
    BY <1>2, <2>1, <2>3, <2>4, ProgressKind
  <2>6. /\ phase' \in [Orchestration -> {"none", "shutting_down", "rebooting", "restarting", "completed"}]
        /\ \A p \in Orchestration :
             \/ phase'[p] = phase[p]
             \/ phase[p] = "restarting" /\ phase'[p] = "completed"
    BY <1>2 DEF IInv, TypeOK
  <2> QED BY <2>2, <2>5, <2>6 DEF RestartMoved
<1>3. \/ UNCHANGED <<phase, restart>>
      \/ \E o \in Orchestration :
           /\ phase[o] = "restarting"
           /\ restart' = [restart EXCEPT ![o] = [c \in Child |-> Progress(status'[c], restart[o][c])]]
           /\ phase' = [phase EXCEPT ![o] = "completed"] \/ phase' = phase
  BY DEF CheckRestart, IInv, TypeOK
<1> QED BY <1>1, <1>2, <1>3

LEMMA RestartKeeps ==
  ASSUME IInv, TypeOK', Learned, RestartMoved, commands' = commands, repeated \subseteq repeated',
         UNCHANGED <<child, snapshot, unstopped, expired, early, overlapped, rebooted, started, hit>>
  PROVE  IInv'
<1>1. misled \subseteq misled'
  BY DEF Learned
<1>2. \A o \in Orchestration :
        phase'[o] = phase[o] \/ (phase[o] = "restarting" /\ phase'[o] = "completed")
  BY DEF RestartMoved
<1>3. Alone'
  <2>1. UnderWay' \subseteq UnderWay
    BY <1>2 DEF UnderWay, Active
  <2> QED BY <2>1, AloneKept
<1>4. Ordered'
  <2>1. \A o \in Orchestration, c \in Child : restart'[o][c] # "none" => restart[o][c] # "none"
    BY DEF RestartMoved
  <2>2. Ordered /\ \A q \in Orchestration : Reboot(q)' = Reboot(q)
    BY DEF IInv, Reboot
  <2> QED BY <1>2, <2>1, <2>2 DEF Ordered
<1>5. Recorded'
  BY <1>2 DEF Recorded, Learned
<1>6. \A o \in Orchestration, c \in Child : Explained(o, c) \/ <<o, c>> \in misled' => Explained(o, c)'
  BY <1>1 DEF Explained
<1>7. Accounted'
  BY <1>2, <1>6 DEF IInv, Accounted, Learned
<1>8. RebootSparesChildren'
  BY <1>1 DEF IInv, RebootSparesChildren
<1>9. RestartedWasStarted'
  <2>1. ASSUME NEW o \in Orchestration, NEW c \in Child, restart'[o][c] = "running"
        PROVE  <<o, c>> \in started' \cup misled' \/ c \in unstopped'[o] \/ o \in early' \cup overlapped'
    <3>1. CASE restart[o][c] = "running"
      BY <1>1, <3>1 DEF IInv, RestartedWasStarted
    <3>2. CASE phase[o] = "restarting" /\ status'[c] = "running" /\ restart[o][c] # "none"
      <4>1. c \in snapshot[o]
        BY <3>2 DEF IInv, Ordered
      <4>2. Explained(o, c)'
        BY <1>6, <3>2, <4>1 DEF Learned
      <4> QED BY <4>2 DEF Explained
    <3> QED BY <2>1, <3>1, <3>2 DEF RestartMoved
  <2> QED BY <2>1 DEF RestartedWasStarted
<1> QED BY <1>3, <1>4, <1>5, <1>7, <1>8, <1>9 DEF IInv

\* The types of what the handling of an answer changes.
LEMMA HandledTypes ==
  ASSUME IInv, NEW command \in Command, NEW outcome, Handled(<<command, outcome>>)
  PROVE  /\ answers' \subseteq answers
         /\ repeated \subseteq repeated' /\ repeated' \subseteq Orchestration
         /\ incidents' \in Nat
<1>1. command[2] \in Orchestration
  BY DEF Command
<1>2. <<command, outcome>>[1] = command
  OBVIOUS
<1>3. PICK kept \in BOOLEAN :
        /\ answers' = IF kept THEN answers ELSE answers \ {<<command, outcome>>}
        /\ repeated' = IF kept THEN repeated \cup {command[2]} ELSE repeated
        /\ Incident(kept)
  BY <1>2 DEF Handled
<1>4. incidents' \in Nat
  BY <1>3, IncidentCounts DEF IInv, TypeOK
<1> QED BY <1>1, <1>3, <1>4 DEF IInv, TypeOK

\* What the handlers of answers have in common: a record, and one look at the progress or none.
ServerStep ==
  /\ Learned
  /\ repeated \subseteq repeated'
  /\ UNCHANGED <<parentUp, child, snapshot, expired, planned, rebooted, started, hit, troubled, early,
                 overlapped>>
  /\ answers' \subseteq answers /\ listings' \subseteq listings /\ correlated' \subseteq correlated
  /\ repeated' \subseteq Orchestration /\ incidents' \in Nat
  /\ \/ UNCHANGED <<phase, commands, unstopped, restart>>
     \/ CheckShutdown /\ UNCHANGED restart
     \/ CheckRestart /\ UNCHANGED <<commands, unstopped>>

LEMMA ServerKeeps == ASSUME IInv, ServerStep PROVE IInv'
<1>1. /\ status' \in [Child -> {"running", "stopped", "error"}]
      /\ misled' \subseteq Orchestration \X Child
  BY DEF ServerStep, Learned
<1>2. CASE (CheckRestart \/ UNCHANGED <<phase, restart>>) /\ UNCHANGED <<commands, unstopped>>
  <2>1. RestartMoved
    BY <1>2, ProgressMoves DEF ServerStep
  <2>2. \A p \in Orchestration : phase'[p] = "none" <=> snapshot'[p] = {}
    BY <2>1 DEF IInv, TypeOK, RestartMoved, ServerStep
  <2>3. TypeOK'
    BY <1>1, <1>2, <2>1, <2>2 DEF IInv, TypeOK, Command, RestartMoved, ServerStep
  <2> QED BY <1>2, <2>1, <2>3, RestartKeeps DEF ServerStep
<1>3. ASSUME NEW p \in Orchestration, ShutdownMoved(p), UNCHANGED restart PROVE IInv'
  <2>1. /\ commands' \subseteq Command
        /\ phase' \in [Orchestration -> {"none", "shutting_down", "rebooting", "restarting", "completed"}]
        /\ unstopped' \in [Orchestration -> SUBSET Child]
        /\ \A q \in Orchestration : phase'[q] = "none" <=> phase[q] = "none"
    BY <1>3, ShutdownTypes
  <2>2. \A q \in Orchestration : phase'[q] = "none" <=> snapshot'[q] = {}
    BY <2>1 DEF IInv, TypeOK, ServerStep
  <2>3. TypeOK'
    BY <1>1, <1>3, <2>1, <2>2 DEF IInv, TypeOK, Command, ServerStep
  <2> QED BY <1>3, <2>3, ShutdownKeeps DEF ServerStep
<1> QED BY <1>2, <1>3, ShutdownMoves DEF ServerStep

LEMMA RecordedStatus ==
  ASSUME IInv, NEW c, NEW s \in {"running", "stopped", "error"}
  PROVE  [status EXCEPT ![c] = s] \in [Child -> {"running", "stopped", "error"}]
BY DEF IInv, TypeOK

LEMMA PlanAnswerServes ==
  ASSUME IInv, NEW command \in Command, NEW outcome, PlanAnswer(command, outcome) PROVE ServerStep
<1>1. /\ IF command \in correlated /\ outcome = "ok"
         THEN Record([status EXCEPT ![command[3]] = "stopped"])
         ELSE UNCHANGED records
      /\ correlated' = correlated \ {command}
      /\ Handled(<<command, outcome>>)
      /\ UNCHANGED <<agent, commands, listings, course, expired, planned, deeds, troubled, concurrence>>
  BY DEF PlanAnswer
<1>2. Learned
  BY <1>1, RecordedStatus, RecordLearns, NothingLearnt
<1> QED BY <1>1, <1>2, HandledTypes DEF ServerStep, agent, course, deeds, concurrence

LEMMA StopAnswerServes ==
  ASSUME IInv, NEW command \in Command, NEW outcome, StopAnswer(command, outcome) PROVE ServerStep
<1>1. /\ IF outcome = "ok"
         THEN Record([status EXCEPT ![command[3]] = "stopped"]) /\ CheckShutdown
         ELSE /\ \E s \in {status[command[3]], "error"} : Record([status EXCEPT ![command[3]] = s])
              /\ UNCHANGED <<phase, commands, unstopped>>
      /\ Handled(<<command, outcome>>)
      /\ UNCHANGED <<agent, listings, snapshot, restart, expired, plans, deeds, troubled, concurrence>>
  BY DEF StopAnswer
<1>2. status[command[3]] \in {"running", "stopped", "error"}
  BY DEF Command, IInv, TypeOK
<1>3. Learned
  BY <1>1, <1>2, RecordedStatus, RecordLearns
<1> QED BY <1>1, <1>3, HandledTypes DEF ServerStep, agent, plans, deeds, concurrence

LEMMA StartAnswerServes ==
  ASSUME IInv, NEW command \in Command, NEW outcome, StartAnswer(command, outcome) PROVE ServerStep
<1>1. /\ IF outcome = "ok"
         THEN Record([status EXCEPT ![command[3]] = "running"]) /\ CheckRestart
         ELSE /\ \E s \in {status[command[3]], "error"} : Record([status EXCEPT ![command[3]] = s])
              /\ UNCHANGED <<phase, restart>>
      /\ Handled(<<command, outcome>>)
      /\ UNCHANGED <<agent, commands, listings, snapshot, unstopped, expired, plans, deeds, troubled,
                     concurrence>>
  BY DEF StartAnswer
<1>2. status[command[3]] \in {"running", "stopped", "error"}
  BY DEF Command, IInv, TypeOK
<1>3. Learned
  BY <1>1, <1>2, RecordedStatus, RecordLearns
<1> QED BY <1>1, <1>3, HandledTypes DEF ServerStep, agent, plans, deeds, concurrence

LEMMA ListingServes ==
  ASSUME IInv, NEW seen, RecordListing(seen) PROVE ServerStep
<1>1. /\ listings' \subseteq listings
      /\ Record([c \in Child |-> CASE seen[c] = "up"   -> "running"
                                   [] seen[c] = "down" -> "stopped"
                                   [] OTHER            -> "error"])
      /\ CheckRestart \/ UNCHANGED <<phase, restart>>
      /\ UNCHANGED <<agent, commands, answers, snapshot, unstopped, expired, plans, deeds, mishaps,
                     concurrence>>
  BY DEF RecordListing
<1>2. [c \in Child |-> CASE seen[c] = "up"   -> "running"
                         [] seen[c] = "down" -> "stopped"
                         [] OTHER            -> "error"] \in [Child -> {"running", "stopped", "error"}]
  OBVIOUS
<1>3. Learned
  BY <1>1, <1>2, RecordLearns
<1>4. repeated' = repeated /\ incidents' = incidents /\ repeated \subseteq Orchestration /\ incidents \in Nat
  BY <1>1 DEF mishaps, IInv, TypeOK
<1> QED BY <1>1, <1>3, <1>4 DEF ServerStep, agent, plans, deeds, mishaps, concurrence

LEMMA HandleServes ==
  ASSUME IInv, NEW command \in Command, NEW outcome, HandleAnswer(command, outcome) PROVE ServerStep
BY PlanAnswerServes, StopAnswerServes, StartAnswerServes DEF HandleAnswer

LEMMA Handles ==
  ASSUME IInv, Handle
  PROVE  \E command \in Command, outcome \in {"ok", "failed"} : HandleAnswer(command, outcome)
<1>1. \A a \in answers : a[1] \in Command
  BY DEF IInv, TypeOK
<1>2. commands \subseteq Command
  BY DEF IInv, TypeOK
<1> QED BY <1>1, <1>2 DEF Handle

LEMMA Inductive == IInv /\ [Next]_vars => IInv'
<1> SUFFICES ASSUME IInv, [Next]_vars PROVE IInv'
  OBVIOUS
<1>1. ASSUME NEW o \in Orchestration, Initiate(o) \/ Expire(o) \/ Lose(o) PROVE IInv'
  BY <1>1, InitiateKeeps, ExpireKeeps, LoseKeeps
<1>2. CASE Heartbeat \/ ParentBoots \/ Observe
  BY <1>2, HeartbeatKeeps, BootsKeeps, ObserveKeeps
<1>3. CASE Execute
  BY <1>3, StopKeeps, StartKeeps, RebootKeeps DEF Execute
<1>4. CASE Handle
  BY <1>4, Handles, HandleServes, ServerKeeps
<1>5. ASSUME NEW seen \in listings, RecordListing(seen) PROVE IInv'
  BY <1>5, ListingServes, ServerKeeps
<1>6. CASE UNCHANGED vars
  <2>1. UNCHANGED <<parentUp, child, commands, answers, listings, status, misled, phase, snapshot, restart,
                    unstopped, expired, planned, correlated, rebooted, started, hit, repeated, troubled,
                    incidents, early, overlapped>>
    BY <1>6 DEF vars, agent, inFlight, records, course, plans, deeds, mishaps, concurrence
  <2>2. TypeOK'
    BY <2>1 DEF IInv, TypeOK, Command
  <2> QED BY <2>1, <2>2, DownKeeps
<1> QED BY <1>1, <1>2, <1>3, <1>4, <1>5, <1>6 DEF Next

-----------------------------------------------------------------------------
(* The theorems.                                                           *)

\* The parts of the invariant hold in every reachable state.
THEOREM Invariant == Spec => []IInv
BY Initially, Inductive, PTL DEF Spec

\* The variables keep their types.
THEOREM TypeCorrect == Spec => []TypeOK
<1>1. IInv => TypeOK
  BY DEF IInv
<1> QED BY <1>1, Invariant, PTL

\* The reboot takes down no child that is up, but for the exceptions that
\* RebootSparesChildren names.
THEOREM ChildrenAreSpared == Spec => []RebootSparesChildren
<1>1. IInv => RebootSparesChildren
  BY DEF IInv
<1> QED BY <1>1, Invariant, PTL

\* A child that counts as restarted was started after the reboot, but for the exceptions
\* that RestartedWasStarted names.
THEOREM RestartsAreEarned == Spec => []RestartedWasStarted
<1>1. IInv => RestartedWasStarted
  BY DEF IInv
<1> QED BY <1>1, Invariant, PTL

-----------------------------------------------------------------------------
(* What an orchestration waits for.  The safety half of Concludes: an      *)
(* orchestration that is not concluded always has something before it that *)
(* the fairness makes happen.                                              *)

\* What the server will still learn of a command, if nothing goes wrong.
ToCome(command) == command \in commands \/ <<command, "ok">> \in answers

\* What may keep an orchestration from concluding.
Excused(o, action) ==
  \/ o \in troubled \cup overlapped
  \/ \E c \in Child : <<o, c>> \in misled \/ <<action, o, c>> \in planned

\* During the shutdown, the stop of a child that is recorded as running is still to come.
StopsAwaited ==
  \A o \in Orchestration, c \in Child :
    phase[o] = "shutting_down" /\ c \in snapshot[o] /\ status[c] = "running"
      => ToCome(<<"stop", o, c>>) \/ Excused(o, "stop")

\* check_shutdown_progress: when the last stop is learnt of, the reboot is ordered.  So a
\* shutdown has always another stop to come, unless one took the plan path, whose result
\* is recorded and nothing else, or it is excused otherwise.
ShutdownGoesOn ==
  \A o \in Orchestration :
    phase[o] = "shutting_down"
      => (\E c \in snapshot[o] : ToCome(<<"stop", o, c>>)) \/ Excused(o, "stop")

\* check_restart_progress: the start of a child that is still awaited is still to come,
\* with the same exceptions.
RestartGoesOn ==
  \A o \in Orchestration, c \in Child :
    restart[o][c] = "pending" => ToCome(<<"start", o, c>>) \/ Excused(o, "start")

\* An orchestration restarts its children just as long as one of them is awaited.
RestartsWhileAwaited ==
  \A o \in Orchestration : phase[o] = "restarting" <=> \E c \in Child : restart[o][c] = "pending"

Waiting ==
  /\ StopsAwaited
  /\ ShutdownGoesOn
  /\ RestartGoesOn
  /\ RestartsWhileAwaited

LEMMA WaitingInitially == Init => Waiting
<1> SUFFICES ASSUME Init PROVE Waiting
  OBVIOUS
<1>1. \A o \in Orchestration : phase[o] = "none" /\ \A c \in Child : restart[o][c] = "none"
  BY DEF Init
<1> QED BY <1>1 DEF Waiting, StopsAwaited, ShutdownGoesOn, RestartGoesOn, RestartsWhileAwaited

\* An excuse is for ever.
LEMMA ExcusesStay ==
  ASSUME troubled \subseteq troubled', overlapped \subseteq overlapped', misled \subseteq misled',
         planned \subseteq planned', NEW o, NEW action, Excused(o, action)
  PROVE  Excused(o, action)'
BY DEF Excused

\* A step of the agent, that tells the server nothing, or of the clock.
LEMMA AgentWaits ==
  ASSUME IInv, Waiting, troubled \subseteq troubled',
         UNCHANGED <<phase, snapshot, restart, status, misled, planned, overlapped>>,
         \A a \in {"stop", "start"}, o \in Orchestration, c \in Child :
           ToCome(<<a, o, c>>) => ToCome(<<a, o, c>>)' \/ o \in troubled'
  PROVE  Waiting'
<1>1. \A o, a : Excused(o, a) => Excused(o, a)'
  BY ExcusesStay
<1>2. \A o, a : o \in troubled' => Excused(o, a)'
  BY DEF Excused
<1>3. StopsAwaited'
  BY <1>1, <1>2 DEF Waiting, StopsAwaited
<1>4. ShutdownGoesOn'
  <2> SUFFICES ASSUME NEW o \in Orchestration, phase[o] = "shutting_down"
               PROVE  (\E c \in snapshot[o] : ToCome(<<"stop", o, c>>)') \/ Excused(o, "stop")'
    BY DEF ShutdownGoesOn
  <2>1. CASE Excused(o, "stop")
    BY <1>1, <2>1
  <2>2. ASSUME NEW c \in snapshot[o], ToCome(<<"stop", o, c>>)
        PROVE  ToCome(<<"stop", o, c>>)' \/ Excused(o, "stop")'
    BY <1>2, <2>2 DEF IInv, TypeOK
  <2> QED BY <2>1, <2>2 DEF Waiting, ShutdownGoesOn
<1>5. RestartGoesOn'
  BY <1>1, <1>2 DEF Waiting, RestartGoesOn
<1>6. RestartsWhileAwaited'
  BY DEF Waiting, RestartsWhileAwaited
<1> QED BY <1>3, <1>4, <1>5, <1>6 DEF Waiting

\* A command that was carried out was answered, or its orchestration is troubled.
LEMMA CarriedOutWaits ==
  ASSUME IInv, Waiting, NEW a, NEW o \in Orchestration, NEW c \in Child, NEW kept, NEW outcome,
         CarriedOut(<<a, o, c>>, kept), Answer(<<a, o, c>>, outcome),
         UNCHANGED <<phase, snapshot, restart, status, misled, planned, overlapped>>
  PROVE  Waiting'
<1>1. /\ commands' = IF kept THEN commands ELSE commands \ {<<a, o, c>>}
      /\ answers' = answers \cup {<<<<a, o, c>>, outcome>>}
      /\ troubled' = IF outcome = "ok" THEN troubled ELSE troubled \cup {o}
  BY DEF CarriedOut, Answer
<1>2. \A b, p, d : ToCome(<<b, p, d>>) => ToCome(<<b, p, d>>)' \/ p \in troubled'
  BY <1>1 DEF ToCome
<1> QED BY <1>1, <1>2, AgentWaits

LEMMA StopWaits ==
  ASSUME IInv, Waiting, NEW o \in Orchestration, NEW c \in Child, Stop(o, c) PROVE Waiting'
<1>1. UNCHANGED <<phase, snapshot, restart, status, misled, planned, overlapped>>
  BY DEF Stop, course, records, plans, concurrence
<1> QED BY <1>1, CarriedOutWaits DEF Stop

LEMMA StartWaits ==
  ASSUME IInv, Waiting, NEW o \in Orchestration, NEW c \in Child, Start(o, c) PROVE Waiting'
<1>1. UNCHANGED <<phase, snapshot, restart, status, misled, planned, overlapped>>
  BY DEF Start, course, records, plans, concurrence
<1> QED BY <1>1, CarriedOutWaits DEF Start

LEMMA RebootWaits ==
  ASSUME IInv, Waiting, NEW o \in Orchestration, DoReboot(o) PROVE Waiting'
<1>1. UNCHANGED <<phase, snapshot, restart, status, misled, planned, overlapped, answers, troubled>>
  BY DEF DoReboot, course, records, plans, concurrence
<1>2. commands \ {Reboot(o)} \subseteq commands'
  BY DEF DoReboot, CarriedOut
<1>3. \A a, p, d : a \in {"stop", "start"} /\ ToCome(<<a, p, d>>) => ToCome(<<a, p, d>>)'
  BY <1>1, <1>2, Commands DEF ToCome
<1> QED BY <1>1, <1>3, AgentWaits

LEMMA LoseWaits ==
  ASSUME IInv, Waiting, NEW o \in Orchestration, Lose(o) PROVE Waiting'
<1>1. UNCHANGED <<phase, snapshot, restart, status, misled, planned, overlapped>>
  BY DEF Lose, course, records, plans, concurrence
<1>2. troubled' = troubled \cup {o}
  BY DEF Lose
<1>3. /\ \A x \in commands : x \in commands' \/ x[2] = o
      /\ \A x \in answers : x \in answers' \/ x[1][2] = o
  BY DEF Lose
<1>4. \A a, p, d : ToCome(<<a, p, d>>) => ToCome(<<a, p, d>>)' \/ p \in troubled'
  <2> SUFFICES ASSUME NEW a, NEW p, NEW d, ToCome(<<a, p, d>>), p # o
               PROVE  ToCome(<<a, p, d>>)'
    BY <1>2
  <2>1. <<a, p, d>>[2] = p /\ <<<<a, p, d>>, "ok">>[1][2] = p
    OBVIOUS
  <2> QED BY <1>3, <2>1 DEF ToCome
<1> QED BY <1>1, <1>2, <1>4, AgentWaits

LEMMA InitiateWaits ==
  ASSUME IInv, Waiting, NEW p \in Orchestration, Initiate(p) PROVE Waiting'
<1>1. /\ phase[p] = "none" /\ phase' = [phase EXCEPT ![p] = "shutting_down"]
      /\ Running # {} /\ snapshot' = [snapshot EXCEPT ![p] = Running]
      /\ commands' = commands \cup ForEach("stop", p, Running)
      /\ overlapped \subseteq overlapped' /\ planned \subseteq planned'
      /\ UNCHANGED <<answers, status, misled, restart, troubled>>
  BY DEF Initiate, Snapshot, records
<1>2. \A x : x \in ForEach("stop", p, Running) <=> \E c \in Running : x = <<"stop", p, c>>
  BY ForEachMember
<1>3. /\ phase'[p] = "shutting_down" /\ snapshot'[p] = Running /\ Running \subseteq Child
      /\ \A o \in Orchestration : o # p => phase'[o] = phase[o] /\ snapshot'[o] = snapshot[o]
  BY <1>1 DEF IInv, TypeOK, Running
<1>4. /\ \A c \in Running : ToCome(<<"stop", p, c>>)'
      /\ \A x : ToCome(x) => ToCome(x)'
  BY <1>1, <1>2 DEF ToCome
<1>5. \A c \in Child : restart[p][c] = "none"
  BY <1>1 DEF IInv, Ordered
<1>6. \A o, a : Excused(o, a) => Excused(o, a)'
  BY <1>1, ExcusesStay
<1>7. StopsAwaited' /\ ShutdownGoesOn'
  BY <1>1, <1>3, <1>4, <1>6 DEF Waiting, StopsAwaited, ShutdownGoesOn
<1>8. RestartGoesOn'
  BY <1>1, <1>4, <1>6 DEF Waiting, RestartGoesOn
<1>9. RestartsWhileAwaited'
  BY <1>1, <1>3, <1>5 DEF Waiting, RestartsWhileAwaited
<1> QED BY <1>7, <1>8, <1>9 DEF Waiting

LEMMA HeartbeatWaits == ASSUME IInv, Waiting, Heartbeat PROVE Waiting'
<1>1. PICK p \in Orchestration :
        /\ phase[p] = "rebooting"
        /\ phase' = [phase EXCEPT ![p] = "restarting"]
        /\ restart' = [restart EXCEPT ![p] =
                         [c \in Child |-> IF c \in snapshot[p] THEN "pending" ELSE "none"]]
        /\ commands' = commands \cup ForEach("start", p, snapshot[p])
        /\ planned \subseteq planned'
  BY DEF Heartbeat
<1>2. UNCHANGED <<answers, status, misled, snapshot, overlapped, troubled>>
  BY DEF Heartbeat, records, mishaps
<1>3. /\ phase'[p] = "restarting"
      /\ \A c \in Child : restart'[p][c] = IF c \in snapshot[p] THEN "pending" ELSE "none"
      /\ \A o \in Orchestration : o # p => phase'[o] = phase[o] /\ restart'[o] = restart[o]
  BY <1>1 DEF IInv, TypeOK
<1>4. snapshot[p] \subseteq Child /\ snapshot[p] # {}
  BY <1>1 DEF IInv, TypeOK
<1>5. /\ \A c \in snapshot[p] : ToCome(<<"start", p, c>>)'
      /\ \A x : ToCome(x) => ToCome(x)'
  BY <1>1, <1>2, ForEachMember DEF ToCome
<1>6. \A o, a : Excused(o, a) => Excused(o, a)'
  BY <1>1, <1>2, ExcusesStay
<1>7. StopsAwaited' /\ ShutdownGoesOn'
  BY <1>2, <1>3, <1>5, <1>6 DEF Waiting, StopsAwaited, ShutdownGoesOn
<1>8. RestartGoesOn'
  BY <1>3, <1>5, <1>6 DEF Waiting, RestartGoesOn
<1>9. RestartsWhileAwaited'
  BY <1>3, <1>4 DEF Waiting, RestartsWhileAwaited
<1> QED BY <1>7, <1>8, <1>9 DEF Waiting

\* A child is not recorded as running again while it is being stopped, but by mistake.
StopsStayRecorded ==
  \A o \in Orchestration, c \in Child :
    phase[o] = "shutting_down" /\ c \in snapshot[o] /\ status'[c] = "running"
      => status[c] = "running" \/ <<o, c>> \in misled' \/ o \in overlapped

LEMMA RecordStays == ASSUME IInv, NEW recorded, Record(recorded) PROVE StopsStayRecorded
<1> SUFFICES ASSUME NEW o \in Orchestration, NEW c \in Child,
                    phase[o] = "shutting_down", c \in snapshot[o], recorded[c] = "running",
                    status[c] # "running", o \notin overlapped
             PROVE  <<o, c>> \in misled'
  BY DEF StopsStayRecorded, Record
<1>1. CASE child[c] = "up"
  BY <1>1 DEF IInv, Recorded, Record
<1>2. CASE child[c] # "up"
  <2>1. c \in {d \in Child : recorded[d] # status[d] /\ (recorded[d] = "running" <=> child[d] # "up")}
    BY <1>2
  <2>2. <<o, c>> \in Targets /\ Active(<<o, c>>[1])
    BY DEF Targets, Active
  <2> QED BY <2>1, <2>2 DEF Record
<1> QED BY <1>1, <1>2

\* What becomes of what is to come when an answer is handled.
LEMMA HandledToCome ==
  ASSUME NEW command, NEW outcome, Handled(<<command, outcome>>), commands \subseteq commands',
         NEW x, ToCome(x), x # command \/ outcome # "ok"
  PROVE  ToCome(x)'
BY DEF Handled, ToCome

\* The server learns that a child was stopped, or of something else.
LEMMA StopsStillAwaited ==
  ASSUME IInv, Waiting, ServerStep, StopsStayRecorded, NEW lost,
         \A x : ToCome(x) /\ x # lost => ToCome(x)',
         \A c \in Child, o \in Orchestration :
           lost = <<"stop", o, c>> => status'[c] # "running" \/ lost \in planned,
         \A o \in Orchestration : phase'[o] = "shutting_down" => phase[o] = "shutting_down"
  PROVE  StopsAwaited'
<1>1. /\ UNCHANGED <<snapshot, planned, troubled, overlapped>> /\ misled \subseteq misled'
  BY DEF ServerStep, Learned
<1>2. \A o, a : Excused(o, a) => Excused(o, a)'
  BY <1>1, ExcusesStay
<1> SUFFICES ASSUME NEW o \in Orchestration, NEW c \in Child, phase'[o] = "shutting_down",
                    c \in snapshot'[o], status'[c] = "running"
             PROVE  ToCome(<<"stop", o, c>>)' \/ Excused(o, "stop")'
  BY DEF StopsAwaited
<1>3. status[c] = "running" \/ Excused(o, "stop")'
  BY <1>1 DEF StopsStayRecorded, Excused
<1>4. CASE status[c] = "running"
  <2>1. ToCome(<<"stop", o, c>>) \/ Excused(o, "stop")
    BY <1>1, <1>4 DEF Waiting, StopsAwaited
  <2>2. CASE lost = <<"stop", o, c>>
    BY <1>1, <2>2 DEF Excused
  <2> QED BY <1>2, <2>1, <2>2
<1> QED BY <1>3, <1>4

\* A look at the progress of a restart concludes it when no child is awaited any more.
LEMMA ProgressWaits ==
  ASSUME IInv, RestartsWhileAwaited, CheckRestart \/ UNCHANGED <<phase, restart>>, Learned
  PROVE  /\ RestartsWhileAwaited'
         /\ \A o \in Orchestration, c \in Child : restart'[o][c] = "pending" => restart[o][c] = "pending"
         /\ \A o \in Orchestration : phase'[o] = "shutting_down" <=> phase[o] = "shutting_down"
<1>1. CASE UNCHANGED <<phase, restart>>
  BY <1>1 DEF RestartsWhileAwaited
<1>2. ASSUME NEW o \in Orchestration, phase[o] = "restarting",
             restart' = [restart EXCEPT ![o] = [c \in Child |-> Progress(status'[c], restart[o][c])]],
             phase' = [phase EXCEPT ![o] =
                         IF AllDone([c \in Child |-> Progress(status'[c], restart[o][c])]) THEN "completed" ELSE @]
      PROVE  /\ RestartsWhileAwaited'
             /\ \A p \in Orchestration, c \in Child : restart'[p][c] = "pending" => restart[p][c] = "pending"
             /\ \A p \in Orchestration : phase'[p] = "shutting_down" <=> phase[p] = "shutting_down"
  <2>1. /\ \A c \in Child : restart'[o][c] = Progress(status'[c], restart[o][c])
        /\ \A p \in Orchestration : p # o => restart'[p] = restart[p] /\ phase'[p] = phase[p]
    BY <1>2 DEF IInv, TypeOK
  <2>2. phase'[o] = IF \A c \in Child : restart'[o][c] # "pending" THEN "completed" ELSE "restarting"
    BY <1>2, <2>1 DEF AllDone, IInv, TypeOK
  <2>3. \A c \in Child : restart'[o][c] = "pending" => restart[o][c] = "pending"
    BY <2>1 DEF Progress
  <2> QED BY <1>2, <2>1, <2>2, <2>3 DEF RestartsWhileAwaited
<1>3. \/ UNCHANGED <<phase, restart>>
      \/ \E o \in Orchestration :
           /\ phase[o] = "restarting"
           /\ restart' = [restart EXCEPT ![o] = [c \in Child |-> Progress(status'[c], restart[o][c])]]
           /\ phase' = [phase EXCEPT ![o] =
                          IF AllDone([c \in Child |-> Progress(status'[c], restart[o][c])]) THEN "completed" ELSE @]
  BY DEF CheckRestart
<1> QED BY <1>1, <1>2, <1>3

\* A child that is recorded as running is not awaited any more, once somebody looks.
LEMMA ProgressFinds ==
  ASSUME IInv, CheckRestart, NEW o \in Orchestration, NEW c \in Child, phase[o] = "restarting",
         o \notin overlapped, status'[c] = "running"
  PROVE  restart'[o][c] # "pending"
<1>1. PICK p \in Orchestration :
        /\ phase[p] = "restarting"
        /\ restart' = [restart EXCEPT ![p] = [d \in Child |-> Progress(status'[d], restart[p][d])]]
  BY DEF CheckRestart
<1>2. p = o
  <2>1. p \in UnderWay
    BY <1>1 DEF UnderWay, Active
  <2> QED BY <2>1, OnlyOne DEF Active
<1>3. restart'[o][c] = Progress("running", restart[o][c])
  BY <1>1, <1>2 DEF IInv, TypeOK
<1> QED BY <1>3 DEF Progress

\* A step that changes the course of no shutdown, and loses no stop or start to come but one
\* that was learnt of.
LEMMA RestartStepWaits ==
  ASSUME IInv, Waiting, ServerStep, StopsStayRecorded,
         CheckRestart \/ UNCHANGED <<phase, restart>>, NEW lost,
         \A x : ToCome(x) /\ x # lost => ToCome(x)',
         \A o \in Orchestration, c \in Child :
           /\ lost = <<"stop", o, c>> => lost \in planned
           /\ lost = <<"start", o, c>> => lost \in planned \/ (CheckRestart /\ status'[c] = "running")
  PROVE  Waiting'
<1>1. /\ UNCHANGED <<snapshot, planned, troubled, overlapped>> /\ misled \subseteq misled' /\ Learned
  BY DEF ServerStep, Learned
<1>2. \A o, a : Excused(o, a) => Excused(o, a)'
  BY <1>1, ExcusesStay
<1>3. /\ RestartsWhileAwaited'
      /\ \A o \in Orchestration, c \in Child : restart'[o][c] = "pending" => restart[o][c] = "pending"
      /\ \A o \in Orchestration : phase'[o] = "shutting_down" <=> phase[o] = "shutting_down"
  BY <1>1, ProgressWaits DEF Waiting
<1>4. StopsAwaited'
  BY <1>3, StopsStillAwaited
<1>5. ShutdownGoesOn'
  <2> SUFFICES ASSUME NEW o \in Orchestration, phase[o] = "shutting_down", ~ Excused(o, "stop")'
               PROVE  \E c \in snapshot[o] : ToCome(<<"stop", o, c>>)'
    BY <1>1, <1>3 DEF ShutdownGoesOn
  <2>1. PICK c \in snapshot[o] : ToCome(<<"stop", o, c>>)
    BY <1>2 DEF Waiting, ShutdownGoesOn
  <2>2. c \in Child
    BY DEF IInv, TypeOK
  <2>3. lost # <<"stop", o, c>>
    BY <1>1, <2>2 DEF Excused
  <2> QED BY <2>1, <2>3
<1>6. RestartGoesOn'
  <2> SUFFICES ASSUME NEW o \in Orchestration, NEW c \in Child, restart'[o][c] = "pending",
                      ~ Excused(o, "start")'
               PROVE  ToCome(<<"start", o, c>>)'
    BY DEF RestartGoesOn
  <2>1. restart[o][c] = "pending" /\ phase[o] = "restarting" /\ o \notin overlapped
    BY <1>1, <1>3 DEF Waiting, RestartsWhileAwaited, Excused
  <2>2. ToCome(<<"start", o, c>>)
    BY <1>2, <2>1 DEF Waiting, RestartGoesOn
  <2>3. lost # <<"start", o, c>>
    <3> SUFFICES ASSUME lost = <<"start", o, c>> PROVE FALSE
      OBVIOUS
    <3>1. <<"start", o, c>> \notin planned
      BY <1>1 DEF Excused
    <3> QED BY <2>1, <3>1, ProgressFinds
  <2> QED BY <2>2, <2>3
<1> QED BY <1>3, <1>4, <1>5, <1>6 DEF Waiting

LEMMA NothingLostWaits ==
  ASSUME IInv, Waiting, ServerStep, StopsStayRecorded, CheckRestart \/ UNCHANGED <<phase, restart>>,
         \A x : ToCome(x) => ToCome(x)'
  PROVE  Waiting'
<1> DEFINE none == <<"none", "none", "none">>
<1>1. \A o, c : none # <<"stop", o, c>> /\ none # <<"start", o, c>>
  OBVIOUS
<1> HIDE DEF none
<1> QED BY <1>1, RestartStepWaits

LEMMA ListingWaits ==
  ASSUME IInv, Waiting, NEW seen, RecordListing(seen) PROVE Waiting'
<1>1. ServerStep
  BY ListingServes
<1>2. StopsStayRecorded
  BY RecordStays DEF RecordListing
<1>3. (CheckRestart \/ UNCHANGED <<phase, restart>>) /\ UNCHANGED <<commands, answers>>
  BY DEF RecordListing
<1>4. \A x : ToCome(x) => ToCome(x)'
  BY <1>3 DEF ToCome
<1> QED BY <1>1, <1>2, <1>3, <1>4, NothingLostWaits

LEMMA PlanAnswerWaits ==
  ASSUME IInv, Waiting, NEW command \in Command, NEW outcome, PlanAnswer(command, outcome) PROVE Waiting'
<1>1. ServerStep
  BY PlanAnswerServes
<1>2. StopsStayRecorded
  <2>1. CASE UNCHANGED records
    BY <2>1 DEF StopsStayRecorded, records
  <2> QED BY <2>1, RecordStays DEF PlanAnswer
<1>3. command \in planned /\ Handled(<<command, outcome>>) /\ UNCHANGED <<commands, phase, restart>>
  BY DEF PlanAnswer, course
<1>4. \A x : ToCome(x) /\ x # command => ToCome(x)'
  BY <1>3, HandledToCome
<1> QED BY <1>1, <1>2, <1>3, <1>4, RestartStepWaits

LEMMA StartAnswerWaits ==
  ASSUME IInv, Waiting, NEW command \in Command, NEW outcome, StartAnswer(command, outcome) PROVE Waiting'
<1>1. ServerStep
  BY StartAnswerServes
<1>2. StopsStayRecorded
  BY RecordStays DEF StartAnswer
<1>3. /\ Handled(<<command, outcome>>) /\ commands' = commands /\ command[1] = "start"
      /\ CheckRestart \/ UNCHANGED <<phase, restart>>
  BY DEF StartAnswer
<1>4. CASE outcome = "ok"
  <2>1. CheckRestart /\ status' = [status EXCEPT ![command[3]] = "running"]
    BY <1>4 DEF StartAnswer, Record
  <2>2. \A o, c : command = <<"start", o, c>> => command[3] = c
    OBVIOUS
  <2>3. \A o \in Orchestration, c \in Child : command = <<"start", o, c>> => status'[c] = "running"
    BY <2>1, <2>2 DEF IInv, TypeOK
  <2>4. \A o, c : command # <<"stop", o, c>>
    BY <1>3
  <2>5. \A x : ToCome(x) /\ x # command => ToCome(x)'
    BY <1>3, HandledToCome
  <2> QED BY <1>1, <1>2, <1>3, <2>1, <2>3, <2>4, <2>5, RestartStepWaits
<1>5. CASE outcome # "ok"
  <2>1. \A x : ToCome(x) => ToCome(x)'
    BY <1>3, <1>5, HandledToCome
  <2> QED BY <1>1, <1>2, <1>3, <2>1, NothingLostWaits
<1> QED BY <1>4, <1>5

\* The handler of a plain stop: after the last of them the reboot is ordered.
LEMMA StopAnswerWaits ==
  ASSUME IInv, Waiting, NEW command \in Command, NEW outcome, StopAnswer(command, outcome) PROVE Waiting'
<1>1. ServerStep
  BY StopAnswerServes
<1>2. StopsStayRecorded
  BY RecordStays DEF StopAnswer
<1>3. Handled(<<command, outcome>>) /\ command[1] = "stop" /\ restart' = restart
  BY DEF StopAnswer
<1>4. CASE outcome # "ok"
  <2>1. UNCHANGED <<phase, commands>>
    BY <1>4 DEF StopAnswer
  <2>2. \A x : ToCome(x) => ToCome(x)'
    BY <1>3, <1>4, <2>1, HandledToCome
  <2> QED BY <1>1, <1>2, <1>3, <2>1, <2>2, NothingLostWaits
<1>5. CASE outcome = "ok"
  <2>1. CheckShutdown /\ status' = [status EXCEPT ![command[3]] = "stopped"]
    BY <1>5 DEF StopAnswer, Record
  <2>2. \A o, c : command = <<"stop", o, c>> => command[3] = c
    OBVIOUS
  <2>3. \A o \in Orchestration, c \in Child : command = <<"stop", o, c>> => status'[c] # "running"
    BY <2>1, <2>2 DEF IInv, TypeOK
  <2>4. UNCHANGED <<phase, commands>> \/ \E p \in Orchestration : ShutdownMoved(p)
    BY <2>1, ShutdownMoves
  <2>5. commands \subseteq commands'
    BY <2>4 DEF ShutdownMoved
  <2>6. \A x : ToCome(x) /\ x # command => ToCome(x)'
    BY <1>3, <2>5, HandledToCome
  <2>7. \A o \in Orchestration :
          \/ phase'[o] = phase[o]
          \/ phase[o] = "shutting_down" /\ phase'[o] = "rebooting"
    BY <2>4, ShutdownTypes DEF ShutdownMoved
  <2>8. /\ UNCHANGED <<snapshot, planned, troubled, overlapped>> /\ misled \subseteq misled'
    BY <1>1 DEF ServerStep, Learned
  <2>9. \A o, a : Excused(o, a) => Excused(o, a)'
    BY <2>8, ExcusesStay
  <2>10. StopsAwaited'
    BY <1>1, <1>2, <2>3, <2>6, <2>7, StopsStillAwaited
  <2>11. ShutdownGoesOn'
    <3> SUFFICES ASSUME NEW o \in Orchestration, phase'[o] = "shutting_down", ~ Excused(o, "stop")'
                 PROVE  \E c \in snapshot'[o] : ToCome(<<"stop", o, c>>)'
      BY DEF ShutdownGoesOn
    <3>1. phase[o] = "shutting_down" /\ o \notin overlapped
      BY <2>7, <2>8 DEF Excused
    <3>2. PICK p \in Orchestration :
            /\ phase[p] = "shutting_down"
            /\ StillRunning(p, status') = {} \/ p \in expired => phase' = [phase EXCEPT ![p] = "rebooting"]
      BY <2>1, <3>1 DEF CheckShutdown
    <3>3. p = o
      <4>1. p \in UnderWay
        BY <3>2 DEF UnderWay, Active
      <4> QED BY <3>1, <4>1, OnlyOne DEF Active
    <3>4. StillRunning(o, status') # {}
      BY <3>2, <3>3 DEF IInv, TypeOK
    <3>5. PICK c \in snapshot[o] : status'[c] = "running"
      BY <3>4 DEF StillRunning
    <3>6. c \in Child /\ c \in snapshot'[o]
      BY <2>8 DEF IInv, TypeOK
    <3> QED BY <2>10, <3>5, <3>6 DEF StopsAwaited
  <2>12. RestartGoesOn'
    <3>1. \A o, c : command # <<"start", o, c>>
      BY <1>3
    <3> QED BY <1>3, <2>6, <2>9, <3>1 DEF Waiting, RestartGoesOn
  <2>13. RestartsWhileAwaited'
    BY <1>3, <2>7 DEF Waiting, RestartsWhileAwaited
  <2> QED BY <2>10, <2>11, <2>12, <2>13 DEF Waiting
<1> QED BY <1>4, <1>5

LEMMA WaitingInductive == ASSUME IInv, Waiting, [Next]_vars PROVE Waiting'
<1>1. ASSUME NEW o \in Orchestration, Initiate(o) \/ Lose(o) PROVE Waiting'
  BY <1>1, InitiateWaits, LoseWaits
<1>2. CASE Heartbeat
  BY <1>2, HeartbeatWaits
<1>3. CASE Execute
  BY <1>3, StopWaits, StartWaits, RebootWaits DEF Execute
<1>4. CASE Handle
  <2>1. PICK command \in Command, outcome \in {"ok", "failed"} : HandleAnswer(command, outcome)
    BY <1>4, Handles
  <2> QED BY <2>1, PlanAnswerWaits, StopAnswerWaits, StartAnswerWaits DEF HandleAnswer
<1>5. ASSUME NEW seen, RecordListing(seen) PROVE Waiting'
  BY <1>5, ListingWaits
<1>6. CASE ParentBoots \/ Observe \/ (\E o \in Orchestration : Expire(o)) \/ UNCHANGED vars
  <2>1. UNCHANGED <<commands, answers, phase, snapshot, restart, status, misled, planned, overlapped, troubled>>
    BY <1>6 DEF ParentBoots, Observe, Expire, vars, inFlight, records, course, plans, mishaps, concurrence
  <2>2. \A x : ToCome(x) => ToCome(x)'
    BY <2>1 DEF ToCome
  <2> QED BY <2>1, <2>2, AgentWaits
<1> QED BY <1>1, <1>2, <1>3, <1>4, <1>5, <1>6 DEF Next

\* The safety half of Concludes, for every number of children and orchestrations: an
\* orchestration that shuts down has another stop to come, one that restarts a start for
\* every child it awaits, unless one of the named things went wrong or took the plan path,
\* and one that awaits no child is concluded.
THEOREM OrchestrationsGoOn == Spec => [](ShutdownGoesOn /\ RestartGoesOn /\ RestartsWhileAwaited)
<1>1. IInv /\ Waiting /\ [Next]_vars => Waiting'
  BY WaitingInductive
<1>2. Waiting => ShutdownGoesOn /\ RestartGoesOn /\ RestartsWhileAwaited
  BY DEF Waiting
<1> QED BY <1>1, <1>2, WaitingInitially, Invariant, PTL DEF Spec

-----------------------------------------------------------------------------
(* The course of an orchestration.                                         *)

Course ==
  {<<"none", "shutting_down">>, <<"shutting_down", "rebooting">>,
   <<"rebooting", "restarting">>, <<"restarting", "completed">>}

\* An orchestration takes one step of its course at a time and never goes back; what it is
\* about does not change once it is requested, a child that does not count as awaited any
\* more never does again, and nothing of a completed one changes.
Forward(o) ==
  /\ phase'[o] # phase[o] => <<phase[o], phase'[o]>> \in Course
  /\ phase[o] # "none" => snapshot'[o] = snapshot[o]
  /\ phase[o] = "completed" => restart'[o] = restart[o]
  /\ \A c \in Child : restart[o][c] \in {"running", "failed"} => restart'[o][c] \in {"running", "failed"}

\* The reboot is ordered in the one step to "rebooting", when every child is recorded as
\* not running or the deadline has passed, and a start of a child in the one step to
\* "restarting": both once, however many heartbeats, listings and answers there are, old
\* and repeated ones included.
OrderedOnce(o) ==
  /\ Reboot(o) \in commands' \ commands =>
       /\ phase[o] = "shutting_down" /\ phase'[o] = "rebooting"
       /\ o \in expired \/ \A c \in snapshot[o] : status'[c] # "running"
  /\ \A c \in Child : <<"start", o, c>> \in commands' \ commands =>
       phase[o] = "rebooting" /\ phase'[o] = "restarting"

OnlyForward == \A o \in Orchestration : Forward(o) /\ OrderedOnce(o)

LEMMA NothingOrdered ==
  ASSUME commands' \subseteq commands, UNCHANGED <<phase, snapshot, restart>>
  PROVE  OnlyForward
BY DEF OnlyForward, Forward, OrderedOnce, Reboot

\* A look at the progress of a restart.
LEMMA ProgressForward ==
  ASSUME IInv, CheckRestart, commands' \subseteq commands, snapshot' = snapshot
  PROVE  OnlyForward
<1>1. CASE UNCHANGED <<phase, restart>>
  BY <1>1, NothingOrdered
<1>2. ASSUME NEW o \in Orchestration, phase[o] = "restarting",
             restart' = [restart EXCEPT ![o] = [c \in Child |-> Progress(status'[c], restart[o][c])]],
             phase' = [phase EXCEPT ![o] = "completed"] \/ phase' = phase
      PROVE  OnlyForward
  <2>1. /\ \A c \in Child : restart'[o][c] = Progress(status'[c], restart[o][c])
        /\ \A p \in Orchestration : p # o => restart'[p] = restart[p] /\ phase'[p] = phase[p]
        /\ phase'[o] \in {"restarting", "completed"}
    BY <1>2 DEF IInv, TypeOK
  <2>2. \A c \in Child : restart[o][c] \in {"running", "failed"} => restart'[o][c] \in {"running", "failed"}
    BY <2>1 DEF Progress
  <2>3. \A p \in Orchestration : Forward(p)
    BY <1>2, <2>1, <2>2 DEF Forward, Course
  <2>4. \A p \in Orchestration : OrderedOnce(p)
    BY DEF OrderedOnce, Reboot
  <2> QED BY <2>3, <2>4 DEF OnlyForward
<1>3. \/ UNCHANGED <<phase, restart>>
      \/ \E o \in Orchestration :
           /\ phase[o] = "restarting"
           /\ restart' = [restart EXCEPT ![o] = [c \in Child |-> Progress(status'[c], restart[o][c])]]
           /\ phase' = [phase EXCEPT ![o] = "completed"] \/ phase' = phase
  BY DEF CheckRestart, IInv, TypeOK
<1> QED BY <1>1, <1>2, <1>3

\* A look at the progress of a shutdown.
LEMMA ShutdownForward ==
  ASSUME IInv, UNCHANGED <<snapshot, restart>>, NEW q \in Orchestration, ShutdownMoved(q)
  PROVE  OnlyForward
<1>1. /\ phase[q] = "shutting_down" /\ phase'[q] = "rebooting"
      /\ \A o \in Orchestration : o # q => phase'[o] = phase[o]
      /\ commands' = commands \cup {Reboot(q)}
  BY ShutdownTypes DEF ShutdownMoved
<1>2. \A o \in Orchestration : Forward(o)
  BY <1>1 DEF Forward, Course
<1>3. /\ \A o \in Orchestration : Reboot(o) \in commands' \ commands => o = q
      /\ \A o \in Orchestration, d \in Child : <<"start", o, d>> \notin commands' \ commands
  BY <1>1, Commands
<1>4. q \in expired \/ \A d \in snapshot[q] : status'[d] # "running"
  BY DEF ShutdownMoved, StillRunning
<1>5. \A o \in Orchestration : OrderedOnce(o)
  BY <1>1, <1>3, <1>4 DEF OrderedOnce
<1> QED BY <1>2, <1>5 DEF OnlyForward

LEMMA ServerForward == ASSUME IInv, ServerStep PROVE OnlyForward
<1>1. CASE UNCHANGED <<phase, commands, unstopped, restart>>
  BY <1>1, NothingOrdered DEF ServerStep
<1>2. CASE CheckShutdown /\ UNCHANGED restart
  BY <1>2, ShutdownMoves, ShutdownForward, NothingOrdered DEF ServerStep
<1>3. CASE CheckRestart /\ UNCHANGED <<commands, unstopped>>
  BY <1>3, ProgressForward DEF ServerStep
<1> QED BY <1>1, <1>2, <1>3 DEF ServerStep

LEMMA InitiateForward ==
  ASSUME IInv, NEW p \in Orchestration, Initiate(p) PROVE OnlyForward
<1>1. /\ phase[p] = "none" /\ phase' = [phase EXCEPT ![p] = "shutting_down"]
      /\ snapshot' = [snapshot EXCEPT ![p] = Running] /\ restart' = restart
      /\ commands' = commands \cup ForEach("stop", p, Running)
  BY DEF Initiate, Snapshot
<1>2. /\ phase'[p] = "shutting_down"
      /\ \A o \in Orchestration : o # p => phase'[o] = phase[o] /\ snapshot'[o] = snapshot[o]
  BY <1>1 DEF IInv, TypeOK
<1>3. \A o \in Orchestration :
        /\ Reboot(o) \notin commands' \ commands
        /\ \A c \in Child : <<"start", o, c>> \notin commands' \ commands
  BY <1>1, ForEachMember, Commands
<1> QED BY <1>1, <1>2, <1>3 DEF OnlyForward, Forward, OrderedOnce, Course

LEMMA HeartbeatForward == ASSUME IInv, Heartbeat PROVE OnlyForward
<1>1. PICK p \in Orchestration :
        /\ phase[p] = "rebooting"
        /\ phase' = [phase EXCEPT ![p] = "restarting"]
        /\ restart' = [restart EXCEPT ![p] =
                         [c \in Child |-> IF c \in snapshot[p] THEN "pending" ELSE "none"]]
        /\ commands' = commands \cup ForEach("start", p, snapshot[p])
  BY DEF Heartbeat
<1>2. snapshot' = snapshot
  BY DEF Heartbeat
<1>3. /\ phase'[p] = "restarting"
      /\ \A o \in Orchestration : o # p => phase'[o] = phase[o] /\ restart'[o] = restart[o]
  BY <1>1 DEF IInv, TypeOK
<1>4. \A c \in Child : restart[p][c] = "none"
  BY <1>1 DEF IInv, Ordered
<1>5. /\ \A o \in Orchestration : Reboot(o) \notin commands' \ commands
      /\ \A o \in Orchestration, c \in Child : <<"start", o, c>> \in commands' \ commands => o = p
  BY <1>1, ForEachMember, Commands
<1>6. \A o \in Orchestration : Forward(o)
  BY <1>1, <1>2, <1>3, <1>4 DEF Forward, Course
<1>7. \A o \in Orchestration : OrderedOnce(o)
  BY <1>1, <1>3, <1>5 DEF OrderedOnce
<1> QED BY <1>6, <1>7 DEF OnlyForward

LEMMA StepForward == ASSUME IInv, [Next]_vars PROVE OnlyForward
<1>1. ASSUME NEW o \in Orchestration, Initiate(o) PROVE OnlyForward
  BY <1>1, InitiateForward
<1>2. CASE Heartbeat
  BY <1>2, HeartbeatForward
<1>3. CASE Handle
  BY <1>3, Handles, HandleServes, ServerForward
<1>4. ASSUME NEW seen, RecordListing(seen) PROVE OnlyForward
  BY <1>4, ListingServes, ServerForward
<1>5. CASE Execute
  <2>1. ASSUME NEW command, NEW kept, CarriedOut(command, kept) PROVE commands' \subseteq commands
    BY <2>1 DEF CarriedOut
  <2>2. ASSUME NEW o, NEW c, Stop(o, c) \/ Start(o, c) PROVE OnlyForward
    BY <2>1, <2>2, NothingOrdered DEF Stop, Start, course
  <2>3. ASSUME NEW o, DoReboot(o) PROVE OnlyForward
    BY <2>1, <2>3, NothingOrdered DEF DoReboot, course
  <2> QED BY <1>5, <2>2, <2>3 DEF Execute
<1>6. ASSUME NEW o \in Orchestration, Expire(o) \/ Lose(o) PROVE OnlyForward
  <2>1. commands' \subseteq commands /\ UNCHANGED <<phase, snapshot, restart>>
    BY <1>6 DEF Expire, Lose, inFlight, course
  <2> QED BY <2>1, NothingOrdered
<1>7. CASE ParentBoots \/ Observe \/ UNCHANGED vars
  <2>1. commands' \subseteq commands /\ UNCHANGED <<phase, snapshot, restart>>
    BY <1>7 DEF ParentBoots, Observe, vars, inFlight, course
  <2> QED BY <2>1, NothingOrdered
<1> QED BY <1>1, <1>2, <1>3, <1>4, <1>5, <1>6, <1>7 DEF Next

\* check_shutdown_progress, handle_agent_reconnect, check_restart_progress: an
\* orchestration runs its course once, and so orders one reboot and one start per child.
THEOREM OrchestrationsRunOnce == Spec => [][OnlyForward]_vars
<1>1. IInv /\ [Next]_vars => [OnlyForward]_vars
  BY StepForward
<1> QED BY <1>1, Invariant, PTL DEF Spec
=============================================================================
