-------------------------- MODULE MCBrowserAccounts --------------------------
EXTENDS BrowserAccounts
(* A start finds no account, or one that the browser or the extension      *)
(* brought earlier.                                                        *)
Account1(source) == [profile |-> "b1", slot |-> 0, source |-> source, on |-> TRUE, readable |-> TRUE]
MCInitialTables == {[i \in {} |-> None]} \cup {[i \in {1} |-> Account1(s)] : s \in {"browser", "remote"}}
MCProfiles == {"b1"}
=============================================================================
