-------------------------- MODULE MCRegistryClient --------------------------
\* An event and a list whose URLs have one cache key: events/tag/cart_viewed and
\* events?tag=cart_viewed.
EXTENDS RegistryClient, TLC
CONSTANTS c1, c2, c3, d1

CallSymmetry == Permutations(Cached)
EventUrl == << << "tag" >>, << "cart", "viewed" >> >>
ListUrl == << << "tag", "cart", "viewed" >> >>
CollidingUrls == {EventUrl, ListUrl}
ListUrls == {ListUrl}
=============================================================================
