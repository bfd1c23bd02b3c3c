---------------------------- MODULE MCMqttWorker ----------------------------
(* Instances of MqttWorker for TLC. *)
EXTENDS MqttWorker
Data == [kind |-> "data", dev |-> 1]
On(d) == [kind |-> "online", dev |-> d]
Off(d) == [kind |-> "offline", dev |-> d]
Scenario(cs, reorder, n, late) ==
    [calls |-> cs, reorder |-> reorder, losses |-> n, late |-> late]
MCScenarios ==
    { Scenario(<<Data, Data, Data, Data>>, TRUE, 1, 0),
      Scenario(<<Data, Data, Data, Data, On(1), Off(1)>>, FALSE, 0, 0),
      Scenario(<<Data, Data, Data>>, FALSE, 2, 0),
      Scenario(<<On(1), On(2), Off(1)>>, FALSE, 1, 0),
      Scenario(<<On(1), On(2), Data>>, FALSE, 1, 1),
      Scenario(<<On(1), Data>>, FALSE, 2, 1) }
=============================================================================
