----------------------------- MODULE MCReclaim -----------------------------
(***************************************************************************)
(* A small host: addresses of four bits, the Docker network "app" with two *)
(* subnets or one, its successor "db" on the same subnet, a NIC whose      *)
(* gateway the tunnel carves out, and a VM bridge as wide as is refused.   *)
(***************************************************************************)
EXTENDS Reclaim

Subnet(net, gw) == [network |-> net, gateway |-> gw]

App == [id |-> "br-1", name |-> "app", option |-> NoDevice,
        subnets |-> {Subnet(<<0, 1>>, <<0, 1, 0, 1>>)},
        containers |-> {<<0, 1, 1, 0>>}]
Idle == [App EXCEPT !.containers = {}]
Db == [App EXCEPT !.id = "br-2", !.name = "db", !.option = "dev0"]
Two == [App EXCEPT !.subnets = @ \cup {Subnet(<<1, 1, 0>>, <<1, 1, 0, 0>>)},
                   !.containers = @ \cup {<<1, 1, 0, 1>>}]

AnyDock == {{App}, {Idle}, {Db}, {Two}}

Nic == [ifname |-> "nic", address |-> <<1, 0, 0, 0>>, length |-> 2]
Vm == [ifname |-> "virbr0", address |-> <<0, 0, 1, 1>>, length |-> 1]
Wired == {Nic, Vm}

Others == {[prefix |-> << >>, device |-> "nic"],
           [prefix |-> <<1, 0, 0, 1>>, device |-> "nic"]}

Mirrored == {<<0, 1>>, <<1, 0>>}

Bounds(mov, flt, cmd) ==
    [k \in Kinds |-> CASE k = "move" -> mov
                       [] k = "fault" -> flt
                       [] k = "command" -> cmd]
FewMoves == Bounds(1, 1, 2)

\* No action reads the accepts, nor the code of a command that is over.
Read == <<world, ours, pc, reading, diagnoses, acting,
          IF pc = "idle" THEN "ok" ELSE code, spent, offered, still>>
===========================================================================
