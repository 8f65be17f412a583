------------------------------ MODULE MCBackends ------------------------------
(***************************************************************************)
(* A small instance of Backends: a volume with a file of two chunks, a     *)
(* partial upload and a tree of two levels (SPIFFS: the files at the top   *)
(* alone), and every operation on it.  A tree that is renamed has to fit   *)
(* the places: d may become e.                                             *)
(***************************************************************************)
EXTENDS Backends

CONSTANTS a, b, d, e, s, x, m, up

MCPlaces == {<<a>>, <<b>>, <<up>>} \cup {<<p>> \o q : p \in {d, e}, q \in {<<>>, <<s>>, <<s, x>>}}

MCPartials == {<<up>>}

Volume(dir, inner) ==
    [p \in MCPlaces |->
        CASE p = <<a>>                  -> <<1, 2>>
          [] p = <<up>>                 -> <<3>>
          [] p \in {<<d>>, <<d, s>>}    -> dir
          [] p = <<d, s, x>>            -> inner
          [] OTHER                      -> Absent]

MCVolumes == {Volume(Directory, <<3>>), Volume(Absent, Absent)}

Call(op, p, q) == [op |-> op, path |-> p, to |-> q]

MCCalls ==
    {Call("copy", <<a>>, q) : q \in {<<b>>, <<m, b>>, <<d, s, x>>}}
        \cup {Call("rename", <<a>>, q) : q \in {<<b>>, <<d, s>>, <<d, s, x>>}}
        \cup {Call("rename", <<d>>, q) : q \in {<<e>>, <<d, s>>}}
        \cup {Call(op, p, <<>>) : op \in {"delete", "mkdir"}, p \in {<<a>>, <<d, s>>, <<e>>}}
        \cup {Call("recursive", p, <<>>) : p \in {<<a>>, <<d>>, <<m>>}}
        \cup {Call("read", <<a>>, <<>>)}
        \cup {Call(op, <<>>, <<>>) : op \in {"mount", "unmount", "format"}}

MCCopies == {Call("copy", <<a>>, q) : q \in {<<a>>, <<b>>}} \cup {Call("mount", <<>>, <<>>)}
=============================================================================
