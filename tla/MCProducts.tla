----------------------------- MODULE MCProducts -----------------------------
(* Installs of YCM and of either instance of YMP, plain, forced and        *)
(* repeated, and the cleans, that of /opt/ymp_<port> among them; YCM in    *)
(* /opt or in a directory of its own, with ycm-init beside the home.       *)
EXTENDS Products

MCLayouts == {[own |-> TRUE, split |-> TRUE], [own |-> FALSE, split |-> FALSE]}

Line(do, dir, flags) == [do |-> do, dir |-> dir, flags |-> flags]

MCCommands ==
         {Line("ycm", "a", fs) : fs \in {{"root"}, {"root", "wipe"}}}
    \cup {Line("ymp", x, fs) : x \in Dirs, fs \in {{"root"}, {"root", "wipe"}, {"root", "again"}}}
    \cup {Line("cleanYCM", "a", fs) : fs \in {{}, {"root"}, {"root", "home"}}}
    \cup {Line("cleanYMP", x, {"root"}) : x \in Dirs \cup {"c"}}
=============================================================================
