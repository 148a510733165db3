----------------------------- MODULE MCDeleteVcn -----------------------------
(* Two deletions of a VCN with two subnets, two internet gateways and a NAT gateway. *)
EXTENDS DeleteVcn
CONSTANTS s1, s2, g1, g2, nat, d1, d2
=============================================================================
