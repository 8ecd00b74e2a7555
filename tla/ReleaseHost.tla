----------------------------- MODULE ReleaseHost -----------------------------
(***************************************************************************)
(* What the control plane may rely on at one crawler host, without the     *)
(* agent's files and the worker process: releases are ordered by           *)
(* generation, the `current' link moves only on account of a generation    *)
(* that is newer than the last one reported ready and wants another        *)
(* release, and a generation is reported ready only while the link shows   *)
(* its release.                                                            *)
(***************************************************************************)
EXTENDS Naturals

CONSTANTS Releases, First, MaxGen

VARIABLES
    orders,  \* by generation, the release ordered and whether a host may move to it
    link,    \* the release the `current' link names
    ready    \* the last generation reported ready, 0 for the bootstrap

hostVars == <<orders, link, ready>>

Order == [release : Releases, open : BOOLEAN]

HostInit ==
    /\ orders = [g \in {0} |-> [release |-> First, open |-> TRUE]]
    /\ link = First
    /\ ready = 0

Receive(g, o) ==
    /\ \A h \in DOMAIN orders : h < g
    /\ orders' = [h \in DOMAIN orders \cup {g} |-> IF h = g THEN o ELSE orders[h]]
    /\ UNCHANGED <<link, ready>>

\* A generation after the last proven one that wants another release.
Unsettled(g) ==
    /\ g \in DOMAIN orders
    /\ g > ready
    /\ orders[g].open
    /\ orders[g].release # orders[ready].release

CanMove(r) ==
    /\ \E g \in DOMAIN orders : Unsettled(g)
    /\ \E g \in DOMAIN orders : g >= ready /\ r = orders[g].release

MoveLink(r) == CanMove(r) /\ link' = r /\ UNCHANGED <<orders, ready>>

CanReport(g) ==
    /\ g \in DOMAIN orders
    /\ g >= ready
    /\ orders[g].open
    /\ orders[g].release = link

ReportReady(g) == CanReport(g) /\ ready' = g /\ UNCHANGED <<orders, link>>

HostNext ==
    \/ \E g \in 1 .. MaxGen, o \in Order : Receive(g, o)
    \/ \E r \in Releases : MoveLink(r)
    \/ \E g \in 0 .. MaxGen : ReportReady(g)

HostSpec == HostInit /\ [][HostNext]_hostVars
=============================================================================
