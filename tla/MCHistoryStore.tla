---------------------------- MODULE MCHistoryStore ----------------------------
(* A node with one series, a link series and a cluster series. *)
EXTENDS HistoryStore

CONSTANTS n1, kNode, kLink, kCluster

MCNodeKeys == [n \in {n1} |-> {kNode}]
MCLinkKeys == {kLink}
MCClusterKeys == {kCluster}
===============================================================================
