---------------------------- MODULE MCLifecycle ----------------------------
(* A small instance of Lifecycle.                                          *)
EXTENDS Lifecycle

SomeDirectories ==
  {<<"not_an_image">>,
   <<"undecodable", "picture">>,
   <<"picture", "not_an_image", "picture", "picture">>,
   <<"picture", "picture", "resized", "picture">>}

ASSUME SomePicturesAreEntries == PicturesAreEntries
=============================================================================
