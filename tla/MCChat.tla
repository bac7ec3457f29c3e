---------------------------------- MODULE MCChat ----------------------------------
(***************************************************************************)
(* Values for the constants of ChatSystem: the topologies start_servers.sh *)
(* builds, cut down, and who is where.                                     *)
(***************************************************************************)
EXTENDS ChatProperties

CONSTANTS s1, s2, s3, c1, c2, c3, a, b

Alone      == [s \in Servers |-> {}]
Complete   == [s \in Servers |-> Servers \ {s}]

\* The line of the simple topology: s1 - s2 - s3.
Line       == [s \in Servers |-> IF s = s2 THEN Servers \ {s2} ELSE {s2} \cap Servers]

AllAtFirst == [c \in Clients |-> s1]
Spread     == [c \in Clients |-> IF c = c1 THEN s1 ELSE IF c = c2 THEN s2 ELSE s3]
TwoAndOne  == [c \in Clients |-> IF c = c3 THEN s2 ELSE s1]
Ends       == [c \in Clients |-> IF c = c1 THEN s1 ELSE s3]

OwnNames   == [c \in Clients |-> c]
SameName   == [c \in Clients |-> c1]

\* Two clients of one server, whom the specification tells apart by nothing.
TwoAlike   == Permutations({c1, c2})

NoPrefix   == {<<ch, ch>> : ch \in ChannelNames}
APrefixOfB == NoPrefix \cup {<<a, b>>}

================================================================================
