--------------------------- MODULE MCSharedDisks ---------------------------
(* Two hosts.  A LUN for the system group, two for the data group, one for *)
(* either, and a local disk that is mounted.  The hosts agree on the names *)
(* of their disks, or two names are swapped, or a local disk shifts them,  *)
(* or they share no disk at all; there may be two paths to a disk; the     *)
(* disks may be NVMe with native multipathing on both hosts or one, and    *)
(* their WWIDs may all be equal.                                           *)
EXTENDS SharedDisks

CONSTANTS h1, h2, small, small2, big1, big2, local

MCHostList == <<h1, h2>>
MCLuns == {small, small2, big1, big2, local}
MCSize == (small :> 1) @@ (small2 :> 1) @@ (big1 :> 4) @@ (big2 :> 4) @@ (local :> 4)

Straight == ("a" :> small) @@ ("b" :> big1) @@ ("c" :> big2)
Swapped == ("a" :> small) @@ ("b" :> big2) @@ ("c" :> big1)
Shifted == ("a" :> local) @@ ("b" :> big1) @@ ("c" :> big2) @@ ("d" :> small)
TwoPaths == ("a" :> small) @@ ("b" :> big1) @@ ("c" :> big1)
OneBig == ("a" :> small) @@ ("b" :> big1)
OtherBig == ("a" :> small2) @@ ("b" :> big2)
TwoSmall == ("a" :> small) @@ ("b" :> small2) @@ ("c" :> big1)

Seen(d1, d2, reliable, native) ==
    [dev |-> (h1 :> d1) @@ (h2 :> d2), busy |-> {local}, reliable |-> reliable,
     nvme |-> native # {}, native |-> [h \in {h1, h2} |-> h \in native]]

MCLayouts ==
         {Seen(Straight, d, TRUE, {}) : d \in {Straight, Swapped, Shifted}}
    \cup {Seen(TwoPaths, TwoPaths, TRUE, {}), Seen(TwoSmall, TwoSmall, TRUE, {})}
    \cup {Seen(Straight, d, TRUE, {h1, h2}) : d \in {Straight, Swapped}}
    \cup {Seen(OneBig, OtherBig, TRUE, {}), Seen(OneBig, OneBig, FALSE, {})}
    \cup {Seen(Straight, Straight, FALSE, {h1, h2}), Seen(Straight, Straight, TRUE, {h1})}

Given(in, s, d) ==
    [sys |-> <<[in |-> in, id |-> s]>>,
     data |-> [i \in DOMAIN d |-> [in |-> in, id |-> d[i]]], arch |-> <<>>]
Line(g, flags) ==
    [groups |-> g, skipOS |-> "skipOS" \in flags, force |-> "F" \in flags, arch |-> "arch" \in flags]

MCOptions ==
         {Line(NoGroups, fs) : fs \in SUBSET {"F", "arch"} \cup {{"skipOS"}, {"skipOS", "arch"}}}
    \cup {Line(Given("dev", "a", d), fs) : d \in {<<"b">>, <<"c">>, <<"c", "b">>}, fs \in {{}, {"F"}}}
    \cup {Line(Given("mapper", <<"sys", 1>>, <<<<"data", 1>>>>), {})}
=============================================================================
