---------------------------- MODULE ServerProofs ----------------------------
(***************************************************************************)
(* The safety properties of Server, what may hold up its Stop and its      *)
(* refinement of Lifecycle, for any number of connections and of           *)
(* goroutines that call Stop.                                              *)
(***************************************************************************)
EXTENDS Server, FiniteSetTheorems, TLAPS

TearingDown == {"signalling", "closing", "grouping", "ranging", "waiting"}

(* Connections that have joined the group at some time. *)
Joined == {"counting", "reading", "leaving", "removing", "uncounting", "closing", "done"}

(* The lock is held from the begin of tearDown to its end, and what the    *)
(* state says of the accept loop and of the wait group.                    *)
PhaseOK ==
  /\ mu # None <=> down \in TearingDown
  /\ mu # None => state = "TERMINATED"
  /\ state = "READY" => acceptor = "none"
  /\ state = "RUNNING" => down = "none" /\ acceptor # "none"
  /\ state = "TERMINATED" /\ mu = None => wg = {} /\ ~listening
  /\ acceptor = "none" => ~listening /\ down = "none" /\ \A c \in Conns : pc[c] = "away"
  /\ listening => down \in {"none", "signalling", "closing"}
  /\ \A s \in Stoppers : ret[s] \in {"RUNNING", "TERMINATED"} =>
       state = "TERMINATED" /\ mu = None

(* The wait group counts exactly the goroutines that run. *)
CountedOK ==
  /\ AcceptLoop \in wg <=> acceptor \in {"accepting", "spawning"}
  /\ \A c \in Conns : c \in wg <=> pc[c] \in Handling
  /\ \A c \in Conns : pc[c] = "accepted" => acceptor = "spawning"
  /\ \A c, d \in Conns : pc[c] = "accepted" /\ pc[d] = "accepted" => c = d
  /\ \A c \in open : pc[c] = "accepted" \/ pc[c] \in Handling

(* Who is in the group. *)
MembersOK ==
  /\ \A c \in Conns : pc[c] \in {"joining", "counting"} => grouped
  /\ \A c \in members : grouped /\ pc[c] \in Joined \ {"uncounting"}
  /\ \A c \in early : pc[c] \in Joined
  /\ EndedLeaveTheGroup

(* How far the Range of Close has come. *)
RangeOK ==
  /\ visiting # None => down = "ranging" /\ visiting \notin open
  /\ down = "ranging" =>
       \A c \in early \cap open : pc[c] \in {"counting", "reading"} => c \in members
  /\ CloseMissesNoMember

IInv == TypeOK /\ PhaseOK /\ CountedOK /\ MembersOK /\ RangeOK

-----------------------------------------------------------------------------
LEMMA InitIInv == Init => IInv
<1> SUFFICES ASSUME Init PROVE IInv
  OBVIOUS
<1> USE ServerAssumption DEF Init
<1>1. TypeOK
  <2>1. pc \in [Conns -> {"away", "queued", "accepted", "done"} \cup Handling]
    OBVIOUS
  <2>2. ret \in [Stoppers -> {"none", "READY", "RUNNING", "TERMINATED"}]
    OBVIOUS
  <2>3. grouped \in BOOLEAN /\ pipeline \in BOOLEAN /\ signalled \in BOOLEAN /\ listening \in BOOLEAN
    BY Zenon
  <2>4. /\ state \in {"READY", "RUNNING", "TERMINATED"}
        /\ mu \in Stoppers \cup {None}
        /\ down \in {"none", "signalling", "closing", "grouping", "ranging", "waiting", "done"}
        /\ acceptor \in {"none", "accepting", "spawning", "exited"}
        /\ wg \subseteq Conns \cup {AcceptLoop}
        /\ visiting \in Conns \cup {None}
    OBVIOUS
  <2>5. /\ open \subseteq Conns
        /\ members \subseteq Conns
        /\ count \in Int
        /\ early \subseteq Conns
        /\ refused \subseteq Conns
    OBVIOUS
  <2> QED BY <2>1, <2>2, <2>3, <2>4, <2>5, Zenon DEF TypeOK
<1>2. PhaseOK
  BY DEF PhaseOK, TearingDown
<1>3. CountedOK
  BY DEF CountedOK, Handling
<1>4. MembersOK
  BY DEF MembersOK, EndedLeaveTheGroup
<1>5. RangeOK
  BY DEF RangeOK, CloseMissesNoMember
<1> QED BY <1>1, <1>2, <1>3, <1>4, <1>5 DEF IInv

LEMMA NextIInv == IInv /\ [Next]_vars => IInv'
<1> USE ServerAssumption DEF config, lifecycle, stopping, accepting, group, Go, TearDown
<1> SUFFICES ASSUME IInv, [Next]_vars PROVE IInv'
  OBVIOUS
<1>t. TypeOK /\ PhaseOK /\ CountedOK /\ MembersOK /\ RangeOK
  BY DEF IInv
<1>1. ASSUME StartFails PROVE IInv'
  <2>1. TypeOK'
    BY <1>1, <1>t DEF StartFails, TypeOK, Handling
  <2>2. PhaseOK'
    BY <1>1, <1>t DEF StartFails, TypeOK, PhaseOK, CountedOK, TearingDown, Handling
  <2>3. CountedOK'
    BY <1>1, <1>t DEF StartFails, TypeOK, PhaseOK, CountedOK, Handling
  <2>4. MembersOK'
    BY <1>1, <1>t DEF StartFails, TypeOK, PhaseOK, MembersOK, EndedLeaveTheGroup, Joined
  <2>5. RangeOK'
    BY <1>1, <1>t DEF StartFails, TypeOK, PhaseOK, MembersOK, RangeOK, CloseMissesNoMember, Joined, TearingDown
  <2> QED BY <2>1, <2>2, <2>3, <2>4, <2>5 DEF IInv
<1>2. ASSUME Start PROVE IInv'
  <2>1. TypeOK'
    BY <1>2, <1>t DEF Start, TypeOK, Handling
  <2>2. PhaseOK'
    BY <1>2, <1>t DEF Start, TypeOK, PhaseOK, CountedOK, TearingDown, Handling
  <2>3. CountedOK'
    BY <1>2, <1>t DEF Start, TypeOK, PhaseOK, CountedOK, Handling
  <2>4. MembersOK'
    BY <1>2, <1>t DEF Start, TypeOK, PhaseOK, MembersOK, EndedLeaveTheGroup, Joined
  <2>5. RangeOK'
    BY <1>2, <1>t DEF Start, TypeOK, PhaseOK, MembersOK, RangeOK, CloseMissesNoMember, Joined, TearingDown
  <2> QED BY <2>1, <2>2, <2>3, <2>4, <2>5 DEF IInv
<1>3. ASSUME AcceptFails PROVE IInv'
  <2>1. TypeOK'
    BY <1>3, <1>t DEF AcceptFails, TypeOK, Handling
  <2>2. PhaseOK'
    BY <1>3, <1>t DEF AcceptFails, TypeOK, PhaseOK, CountedOK, TearingDown, Handling
  <2>3. CountedOK'
    BY <1>3, <1>t DEF AcceptFails, TypeOK, PhaseOK, CountedOK, Handling
  <2>4. MembersOK'
    BY <1>3, <1>t DEF AcceptFails, TypeOK, PhaseOK, MembersOK, EndedLeaveTheGroup, Joined
  <2>5. RangeOK'
    BY <1>3, <1>t DEF AcceptFails, TypeOK, PhaseOK, MembersOK, RangeOK, CloseMissesNoMember, Joined, TearingDown
  <2> QED BY <2>1, <2>2, <2>3, <2>4, <2>5 DEF IInv
<1>4. ASSUME NEW c \in Conns, Arrive(c) PROVE IInv'
  <2>1. TypeOK'
    BY <1>4, <1>t DEF Arrive, TypeOK, Handling
  <2>2. PhaseOK'
    BY <1>4, <1>t DEF Arrive, TypeOK, PhaseOK, CountedOK, TearingDown, Handling
  <2>3. CountedOK'
    BY <1>4, <1>t DEF Arrive, TypeOK, PhaseOK, CountedOK, Handling
  <2>4. MembersOK'
    BY <1>4, <1>t DEF Arrive, TypeOK, PhaseOK, MembersOK, EndedLeaveTheGroup, Joined
  <2>5. RangeOK'
    BY <1>4, <1>t DEF Arrive, TypeOK, PhaseOK, MembersOK, RangeOK, CloseMissesNoMember, Joined, TearingDown
  <2> QED BY <2>1, <2>2, <2>3, <2>4, <2>5 DEF IInv
<1>5. ASSUME NEW c \in Conns, Accept(c) PROVE IInv'
  <2>1. TypeOK'
    BY <1>5, <1>t DEF Accept, TypeOK, Handling
  <2>2. PhaseOK'
    BY <1>5, <1>t DEF Accept, TypeOK, PhaseOK, CountedOK, TearingDown, Handling
  <2>3. CountedOK'
    BY <1>5, <1>t DEF Accept, TypeOK, PhaseOK, CountedOK, Handling
  <2>4. MembersOK'
    BY <1>5, <1>t DEF Accept, TypeOK, PhaseOK, MembersOK, EndedLeaveTheGroup, Joined
  <2>5. RangeOK'
    BY <1>5, <1>t DEF Accept, TypeOK, PhaseOK, MembersOK, RangeOK, CloseMissesNoMember, Joined, TearingDown
  <2> QED BY <2>1, <2>2, <2>3, <2>4, <2>5 DEF IInv
<1>6. ASSUME NEW c \in Conns, Spawn(c) PROVE IInv'
  <2>1. TypeOK'
    BY <1>6, <1>t DEF Spawn, TypeOK, Handling
  <2>2. PhaseOK'
    BY <1>6, <1>t DEF Spawn, TypeOK, PhaseOK, CountedOK, TearingDown, Handling
  <2>3. CountedOK'
    BY <1>6, <1>t DEF Spawn, TypeOK, PhaseOK, CountedOK, Handling
  <2>4. MembersOK'
    BY <1>6, <1>t DEF Spawn, TypeOK, PhaseOK, MembersOK, EndedLeaveTheGroup, Joined
  <2>5. RangeOK'
    BY <1>6, <1>t DEF Spawn, TypeOK, PhaseOK, MembersOK, RangeOK, CloseMissesNoMember, Joined, TearingDown
  <2> QED BY <2>1, <2>2, <2>3, <2>4, <2>5 DEF IInv
<1>7. ASSUME NEW c \in Conns, HandshakeFails(c) PROVE IInv'
  <2>1. TypeOK'
    BY <1>7, <1>t DEF HandshakeFails, TypeOK, Handling
  <2>2. PhaseOK'
    BY <1>7, <1>t DEF HandshakeFails, TypeOK, PhaseOK, CountedOK, TearingDown, Handling
  <2>3. CountedOK'
    BY <1>7, <1>t DEF HandshakeFails, TypeOK, PhaseOK, CountedOK, Handling
  <2>4. MembersOK'
    BY <1>7, <1>t DEF HandshakeFails, TypeOK, PhaseOK, MembersOK, EndedLeaveTheGroup, Joined
  <2>5. RangeOK'
    BY <1>7, <1>t DEF HandshakeFails, TypeOK, PhaseOK, MembersOK, RangeOK, CloseMissesNoMember, Joined, TearingDown
  <2> QED BY <2>1, <2>2, <2>3, <2>4, <2>5 DEF IInv
<1>8. ASSUME NEW c \in Conns, ConnectedFails(c) PROVE IInv'
  <2>1. TypeOK'
    BY <1>8, <1>t DEF ConnectedFails, TypeOK, Handling
  <2>2. PhaseOK'
    BY <1>8, <1>t DEF ConnectedFails, TypeOK, PhaseOK, CountedOK, TearingDown, Handling
  <2>3. CountedOK'
    BY <1>8, <1>t DEF ConnectedFails, TypeOK, PhaseOK, CountedOK, Handling
  <2>4. MembersOK'
    BY <1>8, <1>t DEF ConnectedFails, TypeOK, PhaseOK, MembersOK, EndedLeaveTheGroup, Joined
  <2>5. RangeOK'
    BY <1>8, <1>t DEF ConnectedFails, TypeOK, PhaseOK, MembersOK, RangeOK, CloseMissesNoMember, Joined, TearingDown
  <2> QED BY <2>1, <2>2, <2>3, <2>4, <2>5 DEF IInv
<1>9. ASSUME NEW c \in Conns, Connected(c) PROVE IInv'
  <2>1. TypeOK'
    BY <1>9, <1>t DEF Connected, TypeOK, Handling
  <2>2. PhaseOK'
    BY <1>9, <1>t DEF Connected, TypeOK, PhaseOK, CountedOK, TearingDown, Handling
  <2>3. CountedOK'
    BY <1>9, <1>t DEF Connected, TypeOK, PhaseOK, CountedOK, Handling
  <2>4. MembersOK'
    BY <1>9, <1>t DEF Connected, TypeOK, PhaseOK, MembersOK, EndedLeaveTheGroup, Joined
  <2>5. RangeOK'
    BY <1>9, <1>t DEF Connected, TypeOK, PhaseOK, MembersOK, RangeOK, CloseMissesNoMember, Joined, TearingDown
  <2> QED BY <2>1, <2>2, <2>3, <2>4, <2>5 DEF IInv
<1>10. ASSUME NEW c \in Conns, Join(c) PROVE IInv'
  <2>1. TypeOK'
    BY <1>10, <1>t DEF Join, TypeOK, Handling
  <2>2. PhaseOK'
    BY <1>10, <1>t DEF Join, TypeOK, PhaseOK, CountedOK, TearingDown, Handling
  <2>3. CountedOK'
    BY <1>10, <1>t DEF Join, TypeOK, PhaseOK, CountedOK, Handling
  <2>4. MembersOK'
    BY <1>10, <1>t DEF Join, TypeOK, PhaseOK, MembersOK, EndedLeaveTheGroup, Joined
  <2>5. RangeOK'
    BY <1>10, <1>t DEF Join, TypeOK, PhaseOK, MembersOK, RangeOK, CloseMissesNoMember, Joined, TearingDown
  <2> QED BY <2>1, <2>2, <2>3, <2>4, <2>5 DEF IInv
<1>11. ASSUME NEW c \in Conns, CountUp(c) PROVE IInv'
  <2>1. TypeOK'
    BY <1>11, <1>t DEF CountUp, TypeOK, Handling
  <2>2. PhaseOK'
    BY <1>11, <1>t DEF CountUp, TypeOK, PhaseOK, CountedOK, TearingDown, Handling
  <2>3. CountedOK'
    BY <1>11, <1>t DEF CountUp, TypeOK, PhaseOK, CountedOK, Handling
  <2>4. MembersOK'
    BY <1>11, <1>t DEF CountUp, TypeOK, PhaseOK, MembersOK, EndedLeaveTheGroup, Joined
  <2>5. RangeOK'
    BY <1>11, <1>t DEF CountUp, TypeOK, PhaseOK, MembersOK, RangeOK, CloseMissesNoMember, Joined, TearingDown
  <2> QED BY <2>1, <2>2, <2>3, <2>4, <2>5 DEF IInv
<1>12. ASSUME NEW c \in Conns, ReadFails(c) PROVE IInv'
  <2>1. TypeOK'
    BY <1>12, <1>t DEF ReadFails, TypeOK, Handling
  <2>2. PhaseOK'
    BY <1>12, <1>t DEF ReadFails, TypeOK, PhaseOK, CountedOK, TearingDown, Handling
  <2>3. CountedOK'
    BY <1>12, <1>t DEF ReadFails, TypeOK, PhaseOK, CountedOK, Handling
  <2>4. MembersOK'
    BY <1>12, <1>t DEF ReadFails, TypeOK, PhaseOK, MembersOK, EndedLeaveTheGroup, Joined
  <2>5. RangeOK'
    BY <1>12, <1>t DEF ReadFails, TypeOK, PhaseOK, MembersOK, RangeOK, CloseMissesNoMember, Joined, TearingDown
  <2> QED BY <2>1, <2>2, <2>3, <2>4, <2>5 DEF IInv
<1>13. ASSUME NEW c \in Conns, ReadEnds(c) PROVE IInv'
  <2>1. TypeOK'
    BY <1>13, <1>t DEF ReadEnds, TypeOK, Handling
  <2>2. PhaseOK'
    BY <1>13, <1>t DEF ReadEnds, TypeOK, PhaseOK, CountedOK, TearingDown, Handling
  <2>3. CountedOK'
    BY <1>13, <1>t DEF ReadEnds, TypeOK, PhaseOK, CountedOK, Handling
  <2>4. MembersOK'
    BY <1>13, <1>t DEF ReadEnds, TypeOK, PhaseOK, MembersOK, EndedLeaveTheGroup, Joined
  <2>5. RangeOK'
    BY <1>13, <1>t DEF ReadEnds, TypeOK, PhaseOK, MembersOK, RangeOK, CloseMissesNoMember, Joined, TearingDown
  <2> QED BY <2>1, <2>2, <2>3, <2>4, <2>5 DEF IInv
<1>14. ASSUME NEW c \in Conns, Disconnected(c) PROVE IInv'
  <2>1. TypeOK'
    BY <1>14, <1>t DEF Disconnected, TypeOK, Handling
  <2>2. PhaseOK'
    BY <1>14, <1>t DEF Disconnected, TypeOK, PhaseOK, CountedOK, TearingDown, Handling
  <2>3. CountedOK'
    BY <1>14, <1>t DEF Disconnected, TypeOK, PhaseOK, CountedOK, Handling
  <2>4. MembersOK'
    BY <1>14, <1>t DEF Disconnected, TypeOK, PhaseOK, MembersOK, EndedLeaveTheGroup, Joined
  <2>5. RangeOK'
    BY <1>14, <1>t DEF Disconnected, TypeOK, PhaseOK, MembersOK, RangeOK, CloseMissesNoMember, Joined, TearingDown
  <2> QED BY <2>1, <2>2, <2>3, <2>4, <2>5 DEF IInv
<1>15. ASSUME NEW c \in Conns, DisconnectedFails(c) PROVE IInv'
  <2>1. TypeOK'
    BY <1>15, <1>t DEF DisconnectedFails, TypeOK, Handling
  <2>2. PhaseOK'
    BY <1>15, <1>t DEF DisconnectedFails, TypeOK, PhaseOK, CountedOK, TearingDown, Handling
  <2>3. CountedOK'
    BY <1>15, <1>t DEF DisconnectedFails, TypeOK, PhaseOK, CountedOK, Handling
  <2>4. MembersOK'
    BY <1>15, <1>t DEF DisconnectedFails, TypeOK, PhaseOK, MembersOK, EndedLeaveTheGroup, Joined
  <2>5. RangeOK'
    BY <1>15, <1>t DEF DisconnectedFails, TypeOK, PhaseOK, MembersOK, RangeOK, CloseMissesNoMember, Joined, TearingDown
  <2> QED BY <2>1, <2>2, <2>3, <2>4, <2>5 DEF IInv
<1>16. ASSUME NEW c \in Conns, Remove(c) PROVE IInv'
  <2>1. TypeOK'
    BY <1>16, <1>t DEF Remove, TypeOK, Handling
  <2>2. PhaseOK'
    BY <1>16, <1>t DEF Remove, TypeOK, PhaseOK, CountedOK, TearingDown, Handling
  <2>3. CountedOK'
    BY <1>16, <1>t DEF Remove, TypeOK, PhaseOK, CountedOK, Handling
  <2>4. MembersOK'
    BY <1>16, <1>t DEF Remove, TypeOK, PhaseOK, MembersOK, EndedLeaveTheGroup, Joined
  <2>5. RangeOK'
    BY <1>16, <1>t DEF Remove, TypeOK, PhaseOK, MembersOK, RangeOK, CloseMissesNoMember, Joined, TearingDown
  <2> QED BY <2>1, <2>2, <2>3, <2>4, <2>5 DEF IInv
<1>17. ASSUME NEW c \in Conns, CountDown(c) PROVE IInv'
  <2>1. TypeOK'
    BY <1>17, <1>t DEF CountDown, TypeOK, Handling
  <2>2. PhaseOK'
    BY <1>17, <1>t DEF CountDown, TypeOK, PhaseOK, CountedOK, TearingDown, Handling
  <2>3. CountedOK'
    BY <1>17, <1>t DEF CountDown, TypeOK, PhaseOK, CountedOK, Handling
  <2>4. MembersOK'
    BY <1>17, <1>t DEF CountDown, TypeOK, PhaseOK, MembersOK, EndedLeaveTheGroup, Joined
  <2>5. RangeOK'
    BY <1>17, <1>t DEF CountDown, TypeOK, PhaseOK, MembersOK, RangeOK, CloseMissesNoMember, Joined, TearingDown
  <2> QED BY <2>1, <2>2, <2>3, <2>4, <2>5 DEF IInv
<1>18. ASSUME NEW c \in Conns, Done(c) PROVE IInv'
  <2>1. TypeOK'
    BY <1>18, <1>t DEF Done, TypeOK, Handling
  <2>2. PhaseOK'
    BY <1>18, <1>t DEF Done, TypeOK, PhaseOK, CountedOK, TearingDown, Handling
  <2>3. CountedOK'
    BY <1>18, <1>t DEF Done, TypeOK, PhaseOK, CountedOK, Handling
  <2>4. MembersOK'
    BY <1>18, <1>t DEF Done, TypeOK, PhaseOK, MembersOK, EndedLeaveTheGroup, Joined
  <2>5. RangeOK'
    BY <1>18, <1>t DEF Done, TypeOK, PhaseOK, MembersOK, RangeOK, CloseMissesNoMember, Joined, TearingDown
  <2> QED BY <2>1, <2>2, <2>3, <2>4, <2>5 DEF IInv
<1>19. ASSUME NEW s \in Stoppers, Stop(s) PROVE IInv'
  <2>1. TypeOK'
    BY <1>19, <1>t DEF Stop, TypeOK, Handling
  <2>2. PhaseOK'
    <3>1. CASE state = "RUNNING"
      BY <1>19, <1>t, <3>1 DEF Stop, TypeOK, PhaseOK, TearingDown
    <3>2. CASE state # "RUNNING"
      BY <1>19, <1>t, <3>2 DEF Stop, TypeOK, PhaseOK
    <3> QED BY <3>1, <3>2
  <2>3. CountedOK'
    BY <1>19, <1>t DEF Stop, TypeOK, PhaseOK, CountedOK, Handling
  <2>4. MembersOK'
    BY <1>19, <1>t DEF Stop, TypeOK, PhaseOK, MembersOK, EndedLeaveTheGroup, Joined
  <2>5. RangeOK'
    BY <1>19, <1>t DEF Stop, TypeOK, PhaseOK, MembersOK, RangeOK, CloseMissesNoMember, Joined, TearingDown
  <2> QED BY <2>1, <2>2, <2>3, <2>4, <2>5 DEF IInv
<1>20. ASSUME CloseStopCh PROVE IInv'
  <2>1. TypeOK'
    BY <1>20, <1>t DEF CloseStopCh, TypeOK, Handling
  <2>2. PhaseOK'
    BY <1>20, <1>t DEF CloseStopCh, TypeOK, PhaseOK, CountedOK, TearingDown, Handling
  <2>3. CountedOK'
    BY <1>20, <1>t DEF CloseStopCh, TypeOK, PhaseOK, CountedOK, Handling
  <2>4. MembersOK'
    BY <1>20, <1>t DEF CloseStopCh, TypeOK, PhaseOK, MembersOK, EndedLeaveTheGroup, Joined
  <2>5. RangeOK'
    BY <1>20, <1>t DEF CloseStopCh, TypeOK, PhaseOK, MembersOK, RangeOK, CloseMissesNoMember, Joined, TearingDown
  <2> QED BY <2>1, <2>2, <2>3, <2>4, <2>5 DEF IInv
<1>21. ASSUME CloseListener PROVE IInv'
  <2>1. TypeOK'
    BY <1>21, <1>t DEF CloseListener, TypeOK, Handling
  <2>2. PhaseOK'
    BY <1>21, <1>t DEF CloseListener, TypeOK, PhaseOK, CountedOK, TearingDown, Handling
  <2>3. CountedOK'
    BY <1>21, <1>t DEF CloseListener, TypeOK, PhaseOK, CountedOK, Handling
  <2>4. MembersOK'
    BY <1>21, <1>t DEF CloseListener, TypeOK, PhaseOK, MembersOK, EndedLeaveTheGroup, Joined
  <2>5. RangeOK'
    BY <1>21, <1>t DEF CloseListener, TypeOK, PhaseOK, MembersOK, RangeOK, CloseMissesNoMember, Joined, TearingDown
  <2> QED BY <2>1, <2>2, <2>3, <2>4, <2>5 DEF IInv
<1>22. ASSUME CloseBegins PROVE IInv'
  <2>1. TypeOK'
    BY <1>22, <1>t DEF CloseBegins, TypeOK, Handling
  <2>2. PhaseOK'
    BY <1>22, <1>t DEF CloseBegins, TypeOK, PhaseOK, CountedOK, TearingDown, Handling
  <2>3. CountedOK'
    BY <1>22, <1>t DEF CloseBegins, TypeOK, PhaseOK, CountedOK, Handling
  <2>4. MembersOK'
    BY <1>22, <1>t DEF CloseBegins, TypeOK, PhaseOK, MembersOK, EndedLeaveTheGroup, Joined
  <2>5. RangeOK'
    BY <1>22, <1>t DEF CloseBegins, TypeOK, PhaseOK, MembersOK, RangeOK, CloseMissesNoMember, Joined, TearingDown
  <2> QED BY <2>1, <2>2, <2>3, <2>4, <2>5 DEF IInv
<1>23. ASSUME NEW c \in Conns, CloseConn(c) PROVE IInv'
  <2>1. TypeOK'
    BY <1>23, <1>t DEF CloseConn, TypeOK, Handling
  <2>2. PhaseOK'
    BY <1>23, <1>t DEF CloseConn, TypeOK, PhaseOK, CountedOK, TearingDown, Handling
  <2>3. CountedOK'
    BY <1>23, <1>t DEF CloseConn, TypeOK, PhaseOK, CountedOK, Handling
  <2>4. MembersOK'
    BY <1>23, <1>t DEF CloseConn, TypeOK, PhaseOK, MembersOK, EndedLeaveTheGroup, Joined
  <2>5. RangeOK'
    BY <1>23, <1>t DEF CloseConn, TypeOK, PhaseOK, MembersOK, RangeOK, CloseMissesNoMember, Joined, TearingDown
  <2> QED BY <2>1, <2>2, <2>3, <2>4, <2>5 DEF IInv
<1>24. ASSUME DeleteConn PROVE IInv'
  <2>1. TypeOK'
    BY <1>24, <1>t DEF DeleteConn, TypeOK, Handling
  <2>2. PhaseOK'
    BY <1>24, <1>t DEF DeleteConn, TypeOK, PhaseOK, CountedOK, TearingDown, Handling
  <2>3. CountedOK'
    BY <1>24, <1>t DEF DeleteConn, TypeOK, PhaseOK, CountedOK, Handling
  <2>4. MembersOK'
    BY <1>24, <1>t DEF DeleteConn, TypeOK, PhaseOK, MembersOK, EndedLeaveTheGroup, Joined
  <2>5. RangeOK'
    BY <1>24, <1>t DEF DeleteConn, TypeOK, PhaseOK, MembersOK, RangeOK, CloseMissesNoMember, Joined, TearingDown
  <2> QED BY <2>1, <2>2, <2>3, <2>4, <2>5 DEF IInv
<1>25. ASSUME CloseEnds PROVE IInv'
  <2>1. TypeOK'
    BY <1>25, <1>t DEF CloseEnds, TypeOK, Handling
  <2>2. PhaseOK'
    BY <1>25, <1>t DEF CloseEnds, TypeOK, PhaseOK, CountedOK, TearingDown, Handling
  <2>3. CountedOK'
    BY <1>25, <1>t DEF CloseEnds, TypeOK, PhaseOK, CountedOK, Handling
  <2>4. MembersOK'
    BY <1>25, <1>t DEF CloseEnds, TypeOK, PhaseOK, MembersOK, EndedLeaveTheGroup, Joined
  <2>5. RangeOK'
    BY <1>25, <1>t DEF CloseEnds, TypeOK, PhaseOK, MembersOK, RangeOK, CloseMissesNoMember, Joined, TearingDown
  <2> QED BY <2>1, <2>2, <2>3, <2>4, <2>5 DEF IInv
<1>26. ASSUME Wait PROVE IInv'
  <2>1. TypeOK'
    BY <1>26, <1>t DEF Wait, TypeOK, Handling
  <2>2. PhaseOK'
    BY <1>26, <1>t DEF Wait, TypeOK, PhaseOK, CountedOK, TearingDown, Handling
  <2>3. CountedOK'
    BY <1>26, <1>t DEF Wait, TypeOK, PhaseOK, CountedOK, Handling
  <2>4. MembersOK'
    BY <1>26, <1>t DEF Wait, TypeOK, PhaseOK, MembersOK, EndedLeaveTheGroup, Joined
  <2>5. RangeOK'
    BY <1>26, <1>t DEF Wait, TypeOK, PhaseOK, MembersOK, RangeOK, CloseMissesNoMember, Joined, TearingDown
  <2> QED BY <2>1, <2>2, <2>3, <2>4, <2>5 DEF IInv
<1>27. CASE UNCHANGED vars
  BY <1>27, <1>t DEF vars, IInv, TypeOK, PhaseOK, CountedOK, MembersOK, RangeOK,
     EndedLeaveTheGroup, CloseMissesNoMember
<1> QED
  BY <1>1, <1>2, <1>3, <1>4, <1>5, <1>6, <1>7, <1>8, <1>9, <1>10, <1>11, <1>12, <1>13, <1>14, <1>15, <1>16, <1>17, <1>18, <1>19, <1>20, <1>21, <1>22, <1>23, <1>24, <1>25, <1>26, <1>27 DEF Next, Handler, Teardown

THEOREM Invariance == Spec => []IInv
  BY InitIInv, NextIInv, PTL DEF Spec

-----------------------------------------------------------------------------
(* The variables of the server hold values of their types. *)
THEOREM TypeCorrect == Spec => []TypeOK
<1>1. IInv => TypeOK
  BY DEF IInv
<1> QED BY <1>1, Invariance, PTL

(* Once a Stop that found or brought the server down has returned, nothing *)
(* of the server runs or is open: the wait group counted all of it.        *)
THEOREM NothingIsLeft == Spec => []StopLeavesNothing
<1>1. IInv => StopLeavesNothing
  <2> SUFFICES ASSUME IInv, NEW s \in Stoppers, ret[s] \in {"RUNNING", "TERMINATED"}
               PROVE  /\ ~listening
                      /\ acceptor \in {"none", "exited"}
                      /\ open = {}
                      /\ \A c \in Conns : pc[c] \notin Handling
    BY DEF StopLeavesNothing
  <2>1. wg = {} /\ ~listening
    BY DEF IInv, PhaseOK
  <2>2. acceptor \in {"none", "exited"} /\ \A c \in Conns : pc[c] \notin Handling
    BY <2>1 DEF IInv, TypeOK, CountedOK
  <2>3. open = {}
    BY <2>2 DEF IInv, TypeOK, CountedOK
  <2> QED BY <2>1, <2>2, <2>3
<1> QED BY <1>1, Invariance, PTL

(* The group's Close leaves no early member open that is still read. *)
THEOREM NoMemberIsMissed == Spec => []CloseMissesNoMember
<1>1. IInv => CloseMissesNoMember
  BY DEF IInv, RangeOK
<1> QED BY <1>1, Invariance, PTL

(* An ended connection stays in the group only if OnDisconnected failed. *)
THEOREM EndedAreRemoved == Spec => []EndedLeaveTheGroup
<1>1. IInv => EndedLeaveTheGroup
  BY DEF IInv, MembersOK
<1> QED BY <1>1, Invariance, PTL

-----------------------------------------------------------------------------
Ended == {"ranging", "waiting", "done"}

(* Whom the counter has counted: the members but one that Add has only put *)
(* into the map, and one that Remove has taken out and not counted down.   *)
Counted ==
  {c \in Conns : IF c \in members THEN pc[c] # "counting" ELSE pc[c] = "uncounting"}

(* Until Close ranges over the group, nobody is counted twice or missed.   *)
CountOK ==
  down \notin Ended =>
    /\ IsFiniteSet(Counted)
    /\ count = Cardinality(Counted)
    /\ \A c \in Conns : pc[c] = "counting" => c \in members

LEMMA InitCountOK == Init => CountOK
<1> SUFFICES ASSUME Init PROVE CountOK
  OBVIOUS
<1>1. Counted = {}
  BY DEF Init, Counted
<1> QED BY <1>1, FS_EmptySet DEF Init, CountOK

(* A connection that goes on without being counted or uncounted. *)
LEMMA MovingKeepsCountOK ==
  ASSUME IInv, CountOK, NEW c \in Conns, NEW to,
         pc' = [pc EXCEPT ![c] = to],
         UNCHANGED <<down, members, count>>,
         {pc[c], to} \cap {"counting", "uncounting"} = {}
  PROVE  CountOK'
<1>1. Counted' = Counted
  BY DEF IInv, TypeOK, Counted
<1> QED BY <1>1 DEF IInv, TypeOK, CountOK

LEMMA NextCountOK == IInv /\ CountOK /\ [Next]_vars => CountOK'
<1> USE ServerAssumption DEF config, lifecycle, stopping, accepting, group, Go, TearDown
<1> SUFFICES ASSUME IInv, CountOK, [Next]_vars PROVE CountOK'
  OBVIOUS
<1>t. TypeOK /\ MembersOK
  BY DEF IInv
<1>1. ASSUME NEW c \in Conns,
             \/ Arrive(c) \/ Accept(c) \/ Spawn(c) \/ HandshakeFails(c) \/ ConnectedFails(c)
             \/ Connected(c) \/ ReadFails(c) \/ ReadEnds(c)
             \/ Disconnected(c) \/ DisconnectedFails(c) \/ Done(c)
      PROVE  CountOK'
  <2>1. UNCHANGED <<down, members, count>>
    BY <1>1 DEF Arrive, Accept, Spawn, HandshakeFails, ConnectedFails, Connected, ReadFails, ReadEnds,
       Disconnected, DisconnectedFails, Done
  <2>2. \E to \in {"queued", "accepted", "new", "joining", "reading", "leaving", "removing", "closing", "done"} :
          pc' = [pc EXCEPT ![c] = to]
    BY <1>1 DEF Arrive, Accept, Spawn, HandshakeFails, ConnectedFails, Connected, ReadFails, ReadEnds,
       Disconnected, DisconnectedFails, Done
  <2>3. pc[c] \notin {"counting", "uncounting"}
    BY <1>1 DEF Arrive, Accept, Spawn, HandshakeFails, ConnectedFails, Connected, ReadFails, ReadEnds,
       Disconnected, DisconnectedFails, Done
  <2> QED BY <2>1, <2>2, <2>3, MovingKeepsCountOK, ZenonT(30)
<1>2. ASSUME NEW c \in Conns, Join(c) PROVE CountOK'
  <2>1. Counted' = Counted
    BY <1>2, <1>t DEF Join, TypeOK, MembersOK, Joined, Counted
  <2> QED BY <1>2, <1>t, <2>1 DEF Join, TypeOK, CountOK
<1>3. ASSUME NEW c \in Conns, CountUp(c), down \notin Ended PROVE CountOK'
  <2>1. c \notin Counted /\ Counted' = Counted \cup {c}
    BY <1>3, <1>t DEF CountUp, TypeOK, CountOK, Counted
  <2>2. IsFiniteSet(Counted') /\ Cardinality(Counted') = Cardinality(Counted) + 1
    BY <1>3, <2>1, FS_AddElement DEF CountOK
  <2>3. \A d \in Conns : pc'[d] = "counting" => d \in members'
    BY <1>3, <1>t DEF CountUp, TypeOK, CountOK
  <2> QED BY <1>3, <2>2, <2>3 DEF CountUp, CountOK
<1>4. ASSUME NEW c \in Conns, Remove(c) PROVE CountOK'
  <2>1. Counted' = Counted
    BY <1>4, <1>t DEF Remove, TypeOK, Counted
  <2> QED BY <1>4, <1>t, <2>1 DEF Remove, TypeOK, CountOK
<1>5. ASSUME NEW c \in Conns, CountDown(c), down \notin Ended PROVE CountOK'
  <2>1. c \in Counted /\ Counted' = Counted \ {c}
    BY <1>5, <1>t DEF CountDown, TypeOK, MembersOK, Joined, Counted
  <2>2. IsFiniteSet(Counted') /\ Cardinality(Counted') = Cardinality(Counted) - 1
    BY <1>5, <2>1, FS_RemoveElement DEF CountOK
  <2>3. \A d \in Conns : pc'[d] = "counting" => d \in members'
    BY <1>5, <1>t DEF CountDown, TypeOK, CountOK
  <2> QED BY <1>5, <2>2, <2>3 DEF CountDown, CountOK
<1>6. ASSUME NEW c \in Conns, CountUp(c) \/ CountDown(c), down \in Ended PROVE CountOK'
  BY <1>6 DEF CountUp, CountDown, CountOK
<1>7. CASE StartFails \/ Start \/ AcceptFails \/ CloseStopCh \/ CloseListener \/ UNCHANGED vars
  <2>1. UNCHANGED <<pc, members, count>> /\ (down' \notin Ended => down \notin Ended)
    BY <1>7 DEF StartFails, Start, AcceptFails, CloseStopCh, CloseListener, vars, Ended
  <2> QED BY <2>1 DEF CountOK, Counted
<1>8. ASSUME NEW s \in Stoppers, Stop(s) PROVE CountOK'
  <2>1. UNCHANGED <<pc, members, count>> /\ (down' \notin Ended => down \notin Ended)
    BY <1>8, <1>t DEF Stop, IInv, PhaseOK, Ended
  <2> QED BY <2>1 DEF CountOK, Counted
<1>9. CASE CloseBegins \/ (\E c \in Conns : CloseConn(c)) \/ DeleteConn \/ CloseEnds \/ Wait
  BY <1>9 DEF CloseBegins, CloseConn, DeleteConn, CloseEnds, Wait, CountOK, Ended
<1> QED
  BY <1>1, <1>2, <1>3, <1>4, <1>5, <1>6, <1>7, <1>8, <1>9 DEF Next, Handler, Teardown

(* The size of the group is that of its map whenever no Add or Remove is   *)
(* half done, whatever failed, until Close begins.                         *)
THEOREM SizeIsThatOfTheMap == Spec => []SizeIsExact
<1>1. IInv /\ CountOK => SizeIsExact
  <2> SUFFICES ASSUME IInv, CountOK, down \notin Ended,
                      \A c \in Conns : pc[c] \notin {"counting", "uncounting"}
               PROVE  count = Cardinality(members)
    BY DEF SizeIsExact, Ended
  <2>1. Counted = members
    BY DEF IInv, TypeOK, Counted
  <2> QED BY <2>1 DEF CountOK
<1> QED BY <1>1, InitCountOK, NextCountOK, Invariance, PTL DEF Spec

(* The size of the group is that of its map, and no connection that has    *)
(* ended is in it unless an OnDisconnected failed.                         *)
THEOREM GroupKeepsItsBooks == Spec => []GroupIsExact
  BY SizeIsThatOfTheMap, EndedAreRemoved, PTL DEF GroupIsExact

-----------------------------------------------------------------------------
LEMMA InitImplementsLifecycle == Init => L!Init
  BY DEF Init, L!Init, Phase, Serving, Served, Handling

(* A step that keeps the state, the holder of the lock and the set of      *)
(* running and ended goroutines is a stutter.                              *)
LEMMA Stutter ==
  ASSUME UNCHANGED <<state, mu>>,
         \A c \in Conns : pc'[c] = pc[c] \/ {pc[c], pc'[c]} \cap (Handling \cup {"done"}) = {}
                          \/ {pc[c], pc'[c]} \subseteq Handling
  PROVE  UNCHANGED L!lvars
<1>1. Phase' = Phase
  BY DEF Phase
<1>2. Serving' = Serving /\ Served' = Served
  BY DEF Serving, Served, Handling
<1> QED BY <1>1, <1>2 DEF L!lvars

LEMMA NextImplementsLifecycle == IInv /\ [Next]_vars => [L!Next]_(L!lvars)
<1> USE ServerAssumption DEF config, lifecycle, stopping, accepting, group, Go, TearDown
<1> SUFFICES ASSUME IInv, [Next]_vars PROVE [L!Next]_(L!lvars)
  OBVIOUS
<1>t. TypeOK /\ PhaseOK /\ CountedOK
  BY DEF IInv
<1>1. CASE StartFails \/ Start
  <2>1. Phase = "ready" /\ Phase' \in {"running", "stopped"}
    BY <1>1 DEF StartFails, Start, Phase
  <2>2. Serving' = Serving /\ Served' = Served
    BY <1>1 DEF StartFails, Start, Serving, Served
  <2> QED BY <2>1, <2>2 DEF L!Start, L!Next
<1>2. ASSUME NEW c \in Conns, Spawn(c) PROVE [L!Next]_(L!lvars)
  <2>1. AcceptLoop \in wg
    BY <1>2, <1>t DEF Spawn, CountedOK
  <2>2. Phase' = Phase /\ Phase \in {"running", "draining"}
    BY <1>2, <1>t, <2>1 DEF Spawn, TypeOK, PhaseOK, Phase
  <2>3. c \notin Serving \cup Served /\ Serving' = Serving \cup {c} /\ Served' = Served
    BY <1>2, <1>t DEF Spawn, TypeOK, Serving, Served, Handling
  <2> QED BY <2>2, <2>3 DEF L!Serve, L!Next
<1>3. ASSUME NEW c \in Conns, Done(c) PROVE [L!Next]_(L!lvars)
  <2>1. Phase' = Phase
    BY <1>3 DEF Done, Phase
  <2>2. c \in Serving /\ Serving' = Serving \ {c} /\ Served' = Served \cup {c}
    BY <1>3, <1>t DEF Done, TypeOK, Serving, Served, Handling
  <2> QED BY <2>1, <2>2 DEF L!Finish, L!Next
<1>4. ASSUME NEW s \in Stoppers, Stop(s) PROVE [L!Next]_(L!lvars)
  <2>1. Serving' = Serving /\ Served' = Served
    BY <1>4 DEF Stop, Serving, Served
  <2>2. CASE state = "RUNNING"
    <3>1. Phase = "running" /\ Phase' = "draining"
      BY <1>4, <2>2 DEF Stop, Phase
    <3> QED BY <2>1, <3>1 DEF L!StopBegins, L!Next
  <2>3. CASE state # "RUNNING"
    <3>1. Phase' = Phase
      BY <1>4, <2>3 DEF Stop, Phase
    <3> QED BY <2>1, <3>1 DEF L!lvars
  <2> QED BY <2>2, <2>3
<1>5. CASE Wait
  <2>1. Phase = "draining" /\ Phase' = "stopped"
    BY <1>5, <1>t DEF Wait, PhaseOK, TearingDown, Phase
  <2>2. Serving = {} /\ Serving' = Serving /\ Served' = Served
    BY <1>5, <1>t DEF Wait, CountedOK, Serving, Served
  <2> QED BY <2>1, <2>2 DEF L!StopReturns, L!Next
<1>6. ASSUME NEW c \in Conns,
             \/ Arrive(c) \/ Accept(c) \/ HandshakeFails(c) \/ ConnectedFails(c) \/ Connected(c)
             \/ Join(c) \/ CountUp(c) \/ ReadFails(c) \/ ReadEnds(c)
             \/ Disconnected(c) \/ DisconnectedFails(c) \/ Remove(c) \/ CountDown(c)
      PROVE  [L!Next]_(L!lvars)
  <2>1. UNCHANGED <<state, mu>>
    BY <1>6 DEF Arrive, Accept, HandshakeFails, ConnectedFails, Connected, Join, CountUp, ReadFails,
       ReadEnds, Disconnected, DisconnectedFails, Remove, CountDown
  <2>2. \/ pc[c] \in {"away", "queued"} /\ pc'[c] \in {"queued", "accepted"}
        \/ pc[c] \in Handling /\ pc'[c] \in Handling
    BY <1>6, <1>t DEF Arrive, Accept, HandshakeFails, ConnectedFails, Connected, Join, CountUp,
       ReadFails, ReadEnds, Disconnected, DisconnectedFails, Remove, CountDown, TypeOK, Handling
  <2>3. \A d \in Conns \ {c} : pc'[d] = pc[d]
    BY <1>6, <1>t DEF Arrive, Accept, HandshakeFails, ConnectedFails, Connected, Join, CountUp,
       ReadFails, ReadEnds, Disconnected, DisconnectedFails, Remove, CountDown, TypeOK
  <2> QED BY <2>1, <2>2, <2>3, Stutter DEF Handling
<1>7. CASE \/ AcceptFails \/ CloseStopCh \/ CloseListener \/ CloseBegins
           \/ (\E c \in Conns : CloseConn(c)) \/ DeleteConn \/ CloseEnds
  <2>1. UNCHANGED <<state, mu, pc>>
    BY <1>7 DEF AcceptFails, CloseStopCh, CloseListener, CloseBegins, CloseConn, DeleteConn, CloseEnds
  <2> QED BY <2>1, Stutter
<1>8. CASE UNCHANGED vars
  BY <1>8, Stutter DEF vars
<1> QED
  BY <1>1, <1>2, <1>3, <1>4, <1>5, <1>6, <1>7, <1>8 DEF Next, Handler, Teardown

(* Every behaviour of the server is one that Lifecycle allows. *)
THEOREM ServerImplementsLifecycle == Spec => KeepsLifecycle
<1>1. Spec => L!Init
  BY InitImplementsLifecycle DEF Spec
<1>2. Spec => [][L!Next]_(L!lvars)
  BY Invariance, NextImplementsLifecycle, PTL DEF Spec
<1> QED BY <1>1, <1>2, PTL DEF KeepsLifecycle, L!Spec

-----------------------------------------------------------------------------
(* Whom a Stop can wait for.  The group's Close is for those who have one, *)
(* stopCh is closed before anything else, and the accept loop holds no     *)
(* connection it does not pass on.                                         *)
StoppingOK ==
  /\ early # {} => grouped
  /\ down \in TearingDown \ {"signalling"} => signalled
  /\ acceptor = "spawning" => \E c \in Conns : pc[c] = "accepted"

LEMMA NextStoppingOK == IInv /\ StoppingOK /\ [Next]_vars => StoppingOK'
<1> SUFFICES ASSUME IInv, StoppingOK, [Next]_vars PROVE StoppingOK'
  OBVIOUS
<1> USE DEF StoppingOK, IInv, TypeOK, config, lifecycle, stopping, accepting, group, TearingDown
<1>1. CASE Start \/ StartFails \/ AcceptFails \/ UNCHANGED vars
  BY <1>1 DEF Start, StartFails, AcceptFails, vars
<1>2. ASSUME NEW s \in Stoppers, Stop(s) PROVE StoppingOK'
  BY <1>2 DEF Stop
<1>3. CASE CloseStopCh \/ CloseListener \/ DeleteConn \/ CloseEnds \/ Wait
  BY <1>3 DEF CloseStopCh, CloseListener, DeleteConn, CloseEnds, Wait, TearDown
<1>4. CASE CloseBegins
  BY <1>4 DEF CloseBegins, TearDown, MembersOK
<1>5. ASSUME NEW c \in Conns, CloseConn(c) PROVE StoppingOK'
  BY <1>5 DEF CloseConn, TearDown
<1>6. ASSUME NEW c \in Conns, Arrive(c) \/ Accept(c) \/ Spawn(c) PROVE StoppingOK'
  BY <1>6 DEF Arrive, Accept, Spawn
<1>7. ASSUME NEW c \in Conns, Handler(c) \/ ReadEnds(c) PROVE StoppingOK'
  <2>1. UNCHANGED <<config, down, signalled, early, acceptor>>
    BY <1>7 DEF Handler, ReadEnds, HandshakeFails, ConnectedFails, Connected, Join, CountUp, ReadFails,
       Disconnected, DisconnectedFails, Remove, CountDown, Done, Go
  <2>2. /\ pc[c] \in Handling
        /\ \A d \in Conns \ {c} : pc'[d] = pc[d]
    BY <1>7 DEF Handler, ReadEnds, HandshakeFails, ConnectedFails, Connected, Join, CountUp, ReadFails,
       Disconnected, DisconnectedFails, Remove, CountDown, Done, Go, Handling
  <2>3. "accepted" \notin Handling
    BY DEF Handling
  <2> QED BY <2>1, <2>2, <2>3
<1> QED BY <1>1, <1>2, <1>3, <1>4, <1>5, <1>6, <1>7 DEF Next, Teardown

(* None of the goroutines that are scheduled can move: tearDown has no     *)
(* step but Wait, whose wait group is not empty, the accept loop is gone   *)
(* or has not been told, and every handler waits for its peer.             *)
AtRest ==
  /\ down \in {"none", "done"} \/ (down = "waiting" /\ wg # {})
  /\ ~(acceptor = "accepting" /\ signalled)
  /\ ~(acceptor = "spawning" /\ \E c \in Conns : pc[c] = "accepted")
  /\ \A c \in Conns : pc[c] \in Handling => pc[c] = "reading" /\ c \in open

(* No order of accepts, handlers and Close leaves a Stop that waits for    *)
(* nobody: when nothing can move, a Stop that has not returned waits for a *)
(* connection that is read, that Close did not reach and whose peer has    *)
(* not left.  It is what StopWaitsOnlyForPeers comes to without fairness.  *)
THEOREM StopIsHeldUpByPeers ==
  Spec => [](mu # None /\ AtRest => \E c \in open \ early : pc[c] = "reading")
<1>1. Init => StoppingOK
  BY DEF Init, StoppingOK, TearingDown
<1>2. IInv /\ StoppingOK => (mu # None /\ AtRest => \E c \in open \ early : pc[c] = "reading")
  <2> SUFFICES ASSUME IInv, StoppingOK, mu # None, AtRest
               PROVE  \E c \in open \ early : pc[c] = "reading"
    OBVIOUS
  <2>1. down = "waiting" /\ wg # {} /\ signalled
    BY DEF IInv, PhaseOK, TearingDown, AtRest, StoppingOK
  <2>2. AcceptLoop \notin wg
    BY <2>1 DEF IInv, CountedOK, AtRest, StoppingOK
  <2>3. PICK c \in Conns : c \in wg
    BY <2>1, <2>2 DEF IInv, TypeOK
  <2>4. pc[c] = "reading" /\ c \in open
    BY <2>3 DEF IInv, CountedOK, AtRest
  <2>5. c \notin early
    BY <2>1, <2>4 DEF IInv, RangeOK, CloseMissesNoMember, StoppingOK
  <2> QED BY <2>4, <2>5
<1> QED BY <1>1, <1>2, NextStoppingOK, Invariance, PTL DEF Spec
============================================================================
