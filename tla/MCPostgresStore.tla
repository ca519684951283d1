-------------------------- MODULE MCPostgresStore --------------------------
(* Small instances of the store on Postgres.  A run's id is the path to it,  *)
(* as in MCStore; ids sort as root first, then by length.                    *)
EXTENDS PostgresStore, TLC

CONSTANTS r1, r2, t1, s1

MCSubRunIdFor(p, a) == Append(p, a)

MCRootIds1 == {<<r1>>}
MCRootIds2 == {<<r1>>, <<r2>>}
MCPair == {<<r1>>, <<r1, s1>>}
MCForest == MCPair \cup {<<r2>>}

MCBefore(r, s) == r[1] = r1 /\ (s[1] = r2 \/ Len(r) < Len(s))

MCValidFlowSet(latest) == TRUE

TxnSymmetry == Permutations(Txns)

Upload(v) ==
  [op |-> "store_flows", uploads |-> {[name |-> "flow", version |-> v, content |-> "plain"]}]
Start(r) ==
  [op |-> "start_run", flow |-> "flow", version |-> 1, run |-> r, parent |-> None,
   address |-> None]
StartBelow(p) ==
  [op |-> "start_run", flow |-> "flow", version |-> 1, run |-> None, parent |-> p,
   address |-> s1]
Succeed(r) == [op |-> "succeed_run", run |-> r, output |-> None]
Stop(r) == [op |-> "finish_tree", run |-> r, status |-> "failed"]

Publish(t) == [op |-> "publish_task", task |-> t, queue |-> "default"]
Receive == [op |-> "receive_task", queue |-> "default"]
Claim(t) == [op |-> "claim_task", task |-> t]
Extend(t) == [op |-> "extend_task_lease", task |-> t]
Report(t) == [op |-> "finish_task", task |-> t, status |-> "succeeded", result |-> None]

\* Two trees that are uploaded over, started, added to and ended, and a task of
\* one of them.
MCRequests ==
  LET t == <<<<r1>>, t1>>
  IN  {Upload(1), Upload(2), Start(<<r1>>), Start(<<r2>>), StartBelow(<<r1>>),
       Succeed(<<r1, s1>>), Stop(<<r1>>), Publish(t), Receive, Claim(t),
       Extend(t), Report(t)}
=============================================================================
