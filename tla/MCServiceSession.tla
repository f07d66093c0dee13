--------------------------- MODULE MCServiceSession ---------------------------
(* Instances of ServiceSession: two processes, two batches, two migrations.*)
EXTENDS ServiceSession

CONSTANTS p, q

Session(source, clients, ops, may, patient, faults) ==
  [source |-> source, clients |-> clients, ops |-> ops, may |-> may, patient |-> patient,
   faults |-> faults]
Work == {"script", "migrate", "delete"}

MCSessions ==
  { Session("file", {p}, 3, Work \union {"close"}, TRUE, {"setup", "write"}),
    Session("memory", {p}, 3, Work \union {"close"}, TRUE, {"setup"}),
    Session("file", {p}, 3, {"script", "migrate", "close"}, FALSE, {"setup"}),
    Session("memory", {p}, 4, {"script", "close"}, FALSE, {"lost"}),
    Session("file", {p, q}, 2, Work \union {"createDb"}, TRUE, {"setup", "write"}),
    Session("file", {p, q}, 2, {"script", "migrate"}, TRUE, {"lost", "crash"}),
    Session("file", {p, q}, 3, {"migrate"}, TRUE, {}) }
==============================================================================
