-------------------------- MODULE MCDeviceSettings --------------------------
(***************************************************************************)
(* Instances of DeviceSettings for TLC. For each setting: the first and the *)
(* last valid values, those next to them, and Integers that only get into   *)
(* range, or out of it, by the conversion.                                  *)
(***************************************************************************)
EXTENDS DeviceSettings, TLC

Arguments ==
    [id        |-> {<<0, 0, 5>>, <<65534, 126, 255>>, <<65535, 376, -1>>, <<65536, 1, 1>>},
     period    |-> {<<0>>, <<65534>>, <<-1>>, <<65536>>},
     search    |-> {<<0>>, <<255>>, <<256>>},
     frequency |-> {<<0>>, <<123>>, <<124>>, <<125>>, <<256>>, <<-1>>, <<-65536>>},
     agility   |-> {<<3, 39, 124>>, <<256, 0, 380>>, <<-1, 0, 0>>, <<0, 125, 0>>},
     power     |-> {<<0>>, <<4>>, <<5>>, <<256>>, <<-1>>},
     key       |-> {<<0, 8>>, <<255, 8>>, <<256, 8>>, <<0, 7>>},
     extended  |-> {<<0>>, <<1>>},
     burst     |-> {<<3, 3210, 4>>, <<256, 65535, -1>>, <<1, 65536, 0>>}]

Numbers == {0, 256, -1}

Symmetry == Permutations(Objects) \cup Permutations(Threads)

-----------------------------------------------------------------------------
\* What a comment says of an operation and the code does not do

\* ant_ext.c:286-288, "After a Reset System command has been issued, the application
\* should wait 500ms [...] before any further commands are issued from the host": when
\* reset has returned, that time is over.
CommandsWait ==
    [][told' # told /\ told' # NULL /\ (\A t \in Threads : doing[t] = NULL)
        => since >= Settle]_vars

=============================================================================
