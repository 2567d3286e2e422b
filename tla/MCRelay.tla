------------------------------- MODULE MCRelay -------------------------------
(* Instances of Relay for TLC. *)
EXTENDS Relay, TLC

CONSTANTS d1, d2, c1, c2, r1, a1

\* Every connection pairs as a device of its own: a daemon connects again only
\* when the relay has finished with its previous connection.
DevOfApart == (c1 :> d1) @@ (c2 :> d2)

\* Two connections of one device: a daemon that reconnects before the relay has
\* noticed the end of the old connection, or two daemons with one daemon.toml.
DevOfShared == (c1 :> d1) @@ (c2 :> d1)

DevOfOne == c1 :> d1

\* Two devices with a connection each may change places, together with their
\* connections (DevOfApart): no action or property tells them apart.
DeviceSwap ==
    {f \in Permutations({d1, d2, c1, c2}) :
        {<<f[c1], f[d1]>>, <<f[c2], f[d2]>>} = {<<c1, d1>>, <<c2, d2>>}}
==============================================================================
