------------------------------- MODULE MCRss -------------------------------
(* A feed of three items, all of which are read, and a history of two.     *)
EXTENDS Rss

Spec == RssInit /\ [][RssNext]_rssVars
=============================================================================
