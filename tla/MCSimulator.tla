---------------------------- MODULE MCSimulator ----------------------------
(***************************************************************************)
(* Launches on which TLC checks Config and Simulator: files that differ    *)
(* from a plain one in one field or in the thresholds, for the proxy; for  *)
(* the simulator, one shard with two replicas, two shards, and two shards  *)
(* that share an address.                                                  *)
(***************************************************************************)
EXTENDS Simulator

CONSTANTS sh1, sh2, p1, p2, r1, r2

OneShard == <<[id |-> sh1, primary |-> p1, replicas |-> <<r1, r2>>]>>
TwoShards == <<[id |-> sh1, primary |-> p1, replicas |-> <<r1>>],
               [id |-> sh2, primary |-> p2, replicas |-> <<>>]>>
SharedAddress == <<[id |-> sh1, primary |-> p1, replicas |-> <<r1>>],
                   [id |-> sh2, primary |-> r1, replicas |-> <<>>]>>

Plain ==
    [readable |-> TRUE, interval |-> {2}, suspectAfterMisses |-> {}, downAfterMisses |-> {},
     pgPromote |-> {}, quorumGuard |-> {}, defaultMaxLagMS |-> {0}, user |-> "u",
     database |-> "d", shards |-> OneShard]

Thresholds ==
    {[Plain EXCEPT !.interval = i, !.suspectAfterMisses = s, !.downAfterMisses = d] :
        i \in Optional({-1, 0, 2}), s \in Optional(0 .. 4), d \in Optional(0 .. 4)}

Faulty ==
    {[Plain EXCEPT !.readable = FALSE], [Plain EXCEPT !.defaultMaxLagMS = {-1}],
     [Plain EXCEPT !.user = NoName], [Plain EXCEPT !.database = NoName]}
    \cup {[Plain EXCEPT !.shards = f] : f \in
            {<<>>, OneShard \o OneShard, <<[OneShard[1] EXCEPT !.id = NoName]>>,
             TwoShards \o <<[TwoShards[1] EXCEPT !.primary = p2]>>,
             <<[OneShard[1] EXCEPT !.primary = NoName]>>}}

Files(ui, files) == {[config |-> f, ui |-> ui] : f \in files}

SomeLaunches ==
    Files(FALSE, Thresholds) \cup
    Files(TRUE, Faulty \cup {[Plain EXCEPT !.shards = s] : s \in {OneShard, TwoShards, SharedAddress}})

SomeMaxLags == {-1, 0, 1}
=============================================================================
