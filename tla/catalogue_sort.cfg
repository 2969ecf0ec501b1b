SPECIFICATION CatalogueSpec
CONSTANTS
    Socks <- TestSocks
    Tags = {"odd", "even", "prime"}
    Databases <- TestDatabases
    Addresses <- MCAddresses
    Sorts = {"", "tag"}
INVARIANT SortHonoured
