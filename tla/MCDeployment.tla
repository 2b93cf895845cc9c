---------------------------- MODULE MCDeployment ----------------------------
(* A standalone database, on the default port, next to another database or *)
(* on a port of its own, into directories empty or not; a YAC cluster of   *)
(* two hosts, of each access mode: neighbouring addresses, so that a VIP   *)
(* chosen for one may be the other's, the last of the address range, an    *)
(* interconnect that both hosts have, one of them or neither.              *)
EXTENDS Deployment

CONSTANTS h1, h2

Net(c, n) == [cidr |-> c, name |-> n]
Single ==
    [hosts |-> <<h1>>, yac |-> FALSE, default |-> TRUE, crowd |-> FALSE, alien |-> {}, want |-> {},
     zones |-> TRUE, small |-> FALSE, mode |-> "direct", addr |-> <<1>>, nets |-> <<<<Net(1, 0)>>>>,
     vips |-> <<>>, masked |-> FALSE, scan |-> None, public |-> None, inter |-> None,
     others |-> {}, dns |-> {}]
Pair ==
    [Single EXCEPT !.hosts = <<h1, h2>>, !.yac = TRUE, !.mode = "vip", !.addr = <<1, 2>>, !.others = {3},
                   !.nets = <<<<Net(1, 0), Net(2, 1), Net(3, 1)>>, <<Net(1, 0), Net(3, 1)>>>>]

MCLayouts ==
    {[Single EXCEPT !.want = {"charset", "native", "params", "pdb", "audit", "sql"}, !.alien = {<<h1, "data">>}],
     [Single EXCEPT !.default = FALSE, !.want = {"noarch", "audit", "tpcc"}],
     [Single EXCEPT !.crowd = TRUE, !.alien = {<<h1, "stage">>}],
     [Pair EXCEPT !.want = {"arch", "tune"}],
     [Pair EXCEPT !.mode = "local", !.default = FALSE, !.want = {"tune", "tpcc"}, !.small = TRUE],
     [Pair EXCEPT !.mode = "local", !.vips = <<9, 10>>, !.masked = TRUE, !.crowd = TRUE, !.alien = {<<h2, "install">>}],
     [Pair EXCEPT !.mode = "dns", !.dns = {3, 4}],
     [Pair EXCEPT !.mode = "local", !.public = 1, !.inter = 3, !.default = FALSE],
     [Pair EXCEPT !.mode = "local", !.public = 1, !.inter = 3, !.vips = <<9, 10>>, !.scan = 8],
     [Pair EXCEPT !.mode = "dns", !.dns = {3, 4}, !.others = {}, !.public = 1, !.inter = 3],
     [Pair EXCEPT !.public = 1, !.inter = 3, !.vips = <<9, 10>>],
     [Pair EXCEPT !.public = 1, !.inter = 2],
     [Pair EXCEPT !.public = 2],
     [Single EXCEPT !.yac = TRUE, !.default = FALSE],
     [Pair EXCEPT !.mode = "direct", !.nets = <<<<Net(1, 0)>>, <<Net(1, 0), Net(3, 1)>>>>],
     [Pair EXCEPT !.mode = "direct", !.zones = FALSE],
     [Pair EXCEPT !.addr = <<12, 13>>, !.nets = <<<<Net(3, 0)>>, <<Net(3, 0)>>>>, !.others = {}]}

MCOptions == [force : BOOLEAN, resume : BOOLEAN]
=============================================================================
