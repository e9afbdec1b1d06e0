---------------------------- MODULE MCDeviceKeys ----------------------------
(* Small sets of devices and lists for TLC.  We change our user signing key; *)
(* the other user replaces the keys of a device, moves the old ones to       *)
(* another device, and replaces the master key, which we had signed.         *)
EXTENDS DeviceKeys, TLC

CONSTANTS k1, k2

MCDevice == 1..2
MCKey == {k1, k2}

Devices(k, l) == [d \in Device |-> IF d = 1 THEN k ELSE l]
Keys(devices, master, usk) == [devices |-> devices, master |-> master, usk |-> usk]

MCLists ==
  [u \in User |->
     IF u = Me
       THEN {Keys(Devices(NoKey, NoKey), 1, usk) : usk \in {1, 2}}
       ELSE {Keys(Devices(k1, NoKey), 1, 1), Keys(Devices(k2, k2), 2, 0)}]
MCFirst ==
  [u \in User |-> IF u = Me THEN Keys(Devices(NoKey, NoKey), 1, 2)
                            ELSE Keys(Devices(k1, NoKey), 1, 1)]
MCVerifiable == {<<Them, 1>>}
Perms == Permutations(Slot)
MCSigned == {k1}
============================================================================
