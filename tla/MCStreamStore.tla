--------------------------- MODULE MCStreamStore ---------------------------
EXTENDS StreamStore, TLC

CONSTANTS w1, w2, x, t, a, b, c, z

Event(id, ts, body) ==
    [id |-> id, ts |-> ts, timeline |-> t, body |-> body, marker |-> FALSE, at |-> 1]
MarkerEvent == [id |-> 9, ts |-> 0, timeline |-> x, body |-> x, marker |-> TRUE, at |-> 1]

Call(lane, source, binding, newWorld, initializing, events) ==
    [lane |-> lane, source |-> source, binding |-> binding, newWorld |-> newWorld,
     initializing |-> initializing, events |-> events]

MCCalls == {
    Call("dev", NoApp, NoApp, FALSE, FALSE, <<Event(2, 0, b), Event(1, 1, a), Event(3, 0, c)>>),
    Call("dev", NoApp, NoApp, FALSE, FALSE, <<Event(3, 0, c), Event(3, 0, c)>>),
    Call("dev", NoApp, NoApp, FALSE, FALSE, <<Event(2, 0, b), Event(1, 1, z)>>),
    Call("sim", NoApp, NoApp, TRUE, FALSE, <<Event(2, 0, b), Event(2, 0, b), Event(1, 0, a)>>),
    Call("dev", x, x, FALSE, TRUE, <<MarkerEvent>>),
    Call("dev", x, x, FALSE, FALSE, <<Event(1, 0, a)>>),
    Call("dev", x, NoApp, FALSE, FALSE, <<Event(2, 0, a)>>)}
MCHorizons == {<<2, 1>>, <<1, 2>>}
MCSymmetry == Permutations(Writers)
MCBackups == {{At(Prepared([lane |-> "sim", source |-> NoApp], 0, Event(1, 1, a)), 1),
               At(Prepared([lane |-> "sim", source |-> NoApp], 0, Event(2, 1, b)), 2)}}
=============================================================================
