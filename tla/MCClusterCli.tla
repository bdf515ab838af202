----------------------------- MODULE MCClusterCli -----------------------------
EXTENDS ClusterCli

ThreeNodes == 1..3

Create(list) == [cmd |-> "create", nodes |-> list]
Add(new, existing) == [cmd |-> "add", nodes |-> <<new, existing>>]

\* A new cluster.
Once == <<Create(<<1, 2, 3>>)>>
OnceLinks == {<<1, 2, 1>>, <<1, 3, 1>>}

\* Too few nodes; enough of them; and once more the third one, which --create-cluster has
\* left out or not.
Grown == <<Create(<<1, 2>>), Create(<<1, 2, 3>>), Add(3, 1)>>
GrownLinks == {<<1, 2, 2>>, <<1, 3, 2>>, <<3, 1, 3>>}

None == {}
BadDial == {<<1, 3, 1>>}
OneDies == {3}
=============================================================================
